---- MODULE Spec2Model ----
(***************************************************************************)
(* LifeOS video-memory pipeline: the Redis work queue, the pool of         *)
(* asynchronous workers with their per-segment state machine, the three    *)
(* stores a segment fans out to (relational rows, vector points, the       *)
(* automation controller), and the semantic-search endpoint.               *)
(*                                                                         *)
(* Every asyncio suspension point of a worker is a separate action;        *)
(* external calls return a nondeterministically chosen outcome.            *)
(***************************************************************************)
EXTENDS Integers, Sequences, FiniteSets, TLC

(* ---------------------------- bounds ----------------------------------- *)

NumWorkers == 2
MaxJobs == 2
MaxBatch == 2
MaxMemories == 3

\* External calls of one run that fail or come back empty; a retry of a call
\* that has already failed once is not counted again.
MaxFaults == 1

(* ------------------------ program constants ----------------------------- *)

\* worker.py:558 and :681, memory.py:126 -- the literal user id.
HardcodedUser == "3561affa-b551-483c-be4d-a35c7b57a3fb"

\* main.py:183 -- the user id the capture loop puts in the job metadata.
CaptureUser == "fab1e4f5-6e95-4729-9c0c-cd642e48a7be"

\* worker.py:440 analyze_video_optimized max_retries
max_retries == 3

\* worker.py:589 embed_and_store_video_with_retry max_retries
embed_max_retries == 3

\* worker.py:711 run_automations_with_retry max_retries
automation_max_retries == 2

Workers == 0 .. (NumWorkers - 1)
Users == {CaptureUser, HardcodedUser}
Paths == 1 .. MaxJobs

(* ------------------------------ values ---------------------------------- *)

\* Python None for identifiers and URLs.
NoneId == <<"none", 0>>

\* str(uuid.uuid4()): the n-th UUID minted in this process.
generate_linking_uuid(n) == <<"uuid", n>>

\* The video id the ingest API hands back for an uploaded file.
twelvelabs_video_id(path) == <<"twelvelabs", path>>

\* s3_storage.py:77 -- the URL is a function of the file name.
s3_url_of(path) == <<"s3", path>>

NoJob == [path |-> 0, user_id |-> "", linking_uuid |-> NoneId,
          tl_id |-> NoneId, s3_url |-> NoneId, embedding_task |-> FALSE,
          attempt |-> 0, summary |-> ""]

\* What is known of a pushed job: the outcome of each of its external calls
\* and the value process_video_segment returned for it.
NoOutcome == [uuid |-> NoneId, user_id |-> "", file |-> "ok",
              ingest |-> "none", blob |-> "none",
              summary |-> "none", insert |-> "none", result |-> "none",
              counted |-> FALSE, lost |-> FALSE,
              vec_attempts |-> 0, vec_slept |-> 0,
              vec_failed |-> FALSE]

VARIABLES
    queue,            \* the Redis list; index 1 is the left end
    nextPath,         \* number of the next segment file the producer emits
    popped,           \* paths in the order BRPOP handed them out
    mgr,              \* WorkerManager: "running", "stopping", "stopped"
    stopIdx,          \* stop_workers: next worker whose stop() is awaited
    is_running,       \* worker.is_running
    pc,               \* worker position
    cur,              \* locals of process_video_segment
    lastPop,          \* why the last get_video_segment returned None
    processed_count,  \* worker.processed_count
    nextUuid,         \* UUIDs minted so far + 1
    rows,             \* relational table videos
    points,           \* vector collection
    autoLog,          \* results returned by the automation controller
    s3Attempts,       \* upload_video_segment calls per path
    outcome,          \* per-path record of what happened
    bg,               \* background asyncio tasks
    faults,           \* failed external calls so far
    searchCaller,     \* authenticated user of the last /memory/search
    searchResults,    \* points returned by the last /memory/search
    files,            \* segment files on disk, by path
    stop_calls,       \* calls of WorkerManager.stop_workers so far
    seg,              \* one process_video_segment call, task by task
    events,           \* what that call has done, in order
    wait,             \* locals of _wait_for_task_optimized and its clock
    capture,          \* locals of process_segments / create_video_segment
    camera,           \* frame_queue and the two threads that share it
    api,              \* the HTTP request being served and its response
    highlights,       \* relational table highlights and the sink's result
    calendar,          \* the calendar extractor's input and parsed datetime
    controller,        \* process_video_summary's input and its result dictionary
    waiter,            \* locals of _wait_for_task_async, its clock and the task it polls
    lifecycle,         \* main.py combined mode: signal handler, capture flag, the two tasks
    system            \* system.py: _running_systems, the managers created by /start, the last reply

pipeVars == <<queue, nextPath, popped, mgr, stopIdx, is_running, pc, cur,
              lastPop, processed_count, nextUuid, rows, autoLog, s3Attempts,
              outcome, bg, faults, files>>
searchVars == <<searchCaller, searchResults>>
sideVars == <<camera, api, highlights, calendar>>
lateVars == <<controller, waiter, lifecycle, system>>
auxVars == <<stop_calls, seg, events, wait, capture, sideVars,
            lateVars>>
vars == <<queue, nextPath, popped, mgr, stopIdx, is_running, pc, cur,
          lastPop, processed_count, nextUuid, rows, points, autoLog,
          s3Attempts, outcome, bg, faults, searchCaller, searchResults,
          files, stop_calls, seg, events, wait, capture, camera, api,
          highlights, calendar,
          controller,
          waiter,
          lifecycle,
          system>>

(* --------------------------- pure helpers ------------------------------- *)

Last(s) == s[Len(s)]
Front(s) == SubSeq(s, 1, Len(s) - 1)

RECURSIVE Reverse(_)
Reverse(s) == IF s = <<>> THEN <<>> ELSE Append(Reverse(Tail(s)), Head(s))

RECURSIVE Pow2(_)
Pow2(k) == IF k = 0 THEN 1 ELSE 2 * Pow2(k - 1)

\* The job dictionary built by add_video_segment / add_batch_segments.
job_data(path, user) == [video_path |-> path, metadata_user_id |-> user]

\* A push at the right end, the end BRPOP takes from.
lpush_right(q, values) == q \o values

\* LPUSH key v1 .. vn: each value in turn becomes the new head.
lpush(q, values) == Reverse(values) \o q

\* BRPOP: the right-most element.
brpop_value(q) == Last(q)

\* A read that leaves the element in the list.
brpop_rest_keep(q) == q

brpop_rest(q) == Front(q)

\* A store that appends the point whatever is there.
add_memory_append(pts, memory) ==
    pts \cup {[id |-> memory.id, vector |-> memory.embedding,
               user_id |-> memory.user_id, video_id |-> memory.id]}

\* vector_store.add_memory: a memory without embedding is refused;
\* PointStruct(id=str(memory.id), vector=memory.embedding, payload=...),
\* then upsert -- a point with the same id is replaced.
add_memory(pts, memory) ==
    LET point == [id |-> memory.id,
                  vector |-> memory.embedding,
                  user_id |-> memory.user_id,
                  video_id |-> memory.id]
    IN  IF memory.embedding = ""
        THEN pts
        ELSE {p \in pts : p.id # point.id} \cup {point}

\* worker.py store_embedding_in_vector_db / embed_and_store_video build the
\* MemoryPoint: id is the linking UUID, user_id is the literal at :681/:558.
worker_memory_point_fresh_id(linking_uuid, job_user) ==
    [id |-> NoneId, user_id |-> HardcodedUser,
     embedding |-> "embeddings_float"]

worker_memory_point(linking_uuid, job_user) ==
    [id |-> linking_uuid, user_id |-> HardcodedUser,
     embedding |-> "embeddings_float"]

store_embedding_in_vector_db(pts, linking_uuid, job_user) ==
    add_memory(pts, worker_memory_point(linking_uuid, job_user))

\* A record keyed by the ingest API's video id.
video_record_tl(analysis, user_id) ==
    [video_id |-> analysis.tl_id,
     user_id |-> user_id,
     detailed_summary |-> analysis.summary,
     s3_link |-> analysis.s3_url]

\* supabase_client.insert_video_analysis: the record sent to the table.
video_record(analysis, user_id) ==
    [video_id |-> analysis.linking_uuid,
     user_id |-> user_id,
     detailed_summary |-> analysis.summary,
     s3_link |-> analysis.s3_url]

\* automation_controller.process_video_summary: the result dictionary.
automation_results(video_id, user_id, failed) ==
    [video_id |-> video_id, user_id |-> user_id, error |-> failed]

(* ------------------- decisions taken by the worker ---------------------- *)

\* A worker that does not look for the file.
file_missing_ignored(exists) == FALSE

\* worker.py:155 -- a missing file ends the job with a structured error.
file_missing(exists) == ~exists

\* A worker that does not look at the ingest result.
upload_failed_never(tl) == FALSE

\* worker.py:178 -- the ingest upload is the only fatal result of phase 1.
\* upload_video_optimized returns the video id when the task became ready
\* and None when it reported failed or error or the 180 s cap passed.
IngestResults == {"ready", "failed", "error", "timeout"}

upload_failed(tl) == tl = NoneId

\* A worker that records the URL without looking at the upload result.
s3_url_unchecked(ok, path) == s3_url_of(path)

\* worker.py:183-185 -- a failed blob upload leaves s3_url = None.
s3_url_checked(ok, path) == IF ok THEN s3_url_of(path) ELSE NoneId

\* worker.py:436-473 -- what analyze_video_optimized returns as the summary.
generated_summary(data) == data
failed_summary == "Error after 3 attempts"

\* worker.py:235 -- automations are started for a truthy summary.
starts_automation(summary) == summary # ""

\* worker.py:281 + :108 -- process_video_segment returns the analysis
\* dictionary (which has no "error" key) whether or not the insert
\* succeeded, and process_loop counts every result without "error".
counts_as_processed(res, supabase_stored) == res # "error"

\* A loop that ends when a job comes back as an error.
after_result_stop(res) == IF res = "error" THEN "returned" ELSE "loop"

\* worker.py:97-144 -- process_video_segment catches every Exception and
\* returns a dictionary; process_loop logs the result, whatever it is, and
\* goes round its loop.
after_result(res) == "loop"

\* worker.py:592-606 -- the seconds slept before the next attempt of the
\* fallback embedding: asyncio.sleep(2**attempt) stands in the except
\* branch, which is taken when embed_and_store_video raises.
retry_sleep(raised, attempt) ==
    IF raised /\ attempt < embed_max_retries - 1 THEN Pow2(attempt) ELSE 0

\* An external call may fail if the run's budget of failures allows it, or
\* if it is a retry of a call that already failed.
may_fail(attempt) == attempt > 0 \/ faults < MaxFaults
charge(failed, attempt) == IF failed /\ attempt = 0 THEN 1 ELSE 0
B2N(b) == IF b THEN 1 ELSE 0

(* ------------------------------ Init ------------------------------------ *)

NoSeg == [pc |-> "idle"]
NoWait == [pc |-> "idle"]
NoCapture == [pc |-> "idle"]

\* ingestion.py:44-45 -- the frame queue is empty and the camera thread is
\* at the head of its loop; nothing was collected or lost yet.
NoCamera == [pc |-> "read", queue |-> <<>>, next |-> 1, frame |-> 0,
             collected |-> <<>>, lost |-> <<>>, handled |-> 0]
NoApi == [pc |-> "idle"]
NoHighlights == [pc |-> "idle", table |-> {}]
NoCalendar == [pc |-> "idle"]

NoController == [pc |-> "idle"]

NoWaiter == [pc |-> "idle"]

NoLifecycle == [pc |-> "idle"]

NoSystem == [pc |-> "idle"]

\* The parts of the program that a specification does not exercise are at
\* rest.
AuxIdle ==
    /\ stop_calls = 0
    /\ seg = NoSeg
    /\ events = <<>>
    /\ wait = NoWait
    /\ capture = NoCapture
    /\ camera = NoCamera
    /\ api = NoApi
    /\ highlights = NoHighlights
    /\ calendar = NoCalendar
    /\ controller = NoController
    /\ waiter = NoWaiter
    /\ lifecycle = NoLifecycle
    /\ system = NoSystem

\* The pool has started its workers and each has entered process_loop.
Started ==
    /\ queue = <<>>
    /\ nextPath = 1
    /\ popped = <<>>
    /\ mgr = "running"
    /\ stopIdx = 0
    /\ is_running = [w \in Workers |-> TRUE]
    /\ pc = [w \in Workers |-> "loop"]
    /\ cur = [w \in Workers |-> NoJob]
    /\ lastPop = [w \in Workers |-> "none"]
    /\ processed_count = [w \in Workers |-> 0]
    /\ nextUuid = 1
    /\ rows = {}
    /\ points = {}
    /\ autoLog = {}
    /\ s3Attempts = [p \in Paths |-> 0]
    /\ outcome = [p \in Paths |-> NoOutcome]
    /\ bg = {}
    /\ searchCaller = ""
    /\ searchResults = {}
    /\ files = {}

Init == Started /\ AuxIdle /\ faults = 0

(* ----------------------------- producer --------------------------------- *)

\* queue_manager.add_video_segment: LPUSH of one job.
add_video_segment(user) ==
    /\ nextPath <= MaxJobs
    /\ queue' = lpush(queue, <<job_data(nextPath, user)>>)
    /\ files' = files \cup {nextPath}
    /\ nextPath' = nextPath + 1
    /\ UNCHANGED <<popped, mgr, stopIdx, is_running, pc, cur, lastPop,
                   processed_count, nextUuid, rows, points, autoLog,
                   s3Attempts, outcome, bg, faults, searchVars, auxVars>>

\* queue_manager.add_batch_segments: one LPUSH of all jobs, same metadata.
add_batch_segments(n, user) ==
    /\ n >= 2
    /\ nextPath + n - 1 <= MaxJobs
    /\ queue' = lpush(queue,
                      [i \in 1 .. n |-> job_data(nextPath + i - 1, user)])
    /\ files' = files \cup (nextPath .. (nextPath + n - 1))
    /\ nextPath' = nextPath + n
    /\ UNCHANGED <<popped, mgr, stopIdx, is_running, pc, cur, lastPop,
                   processed_count, nextUuid, rows, points, autoLog,
                   s3Attempts, outcome, bg, faults, searchVars, auxVars>>

\* A queued segment file disappears from the temporary directory before a
\* worker gets to it (worker.py:155 is where that is noticed).
file_removed(p) ==
    /\ p \in files
    /\ \E k \in 1 .. Len(queue) : queue[k].video_path = p
    /\ may_fail(0)
    /\ faults' = faults + 1
    /\ files' = files \ {p}
    /\ UNCHANGED <<queue, nextPath, popped, mgr, stopIdx, is_running, pc, cur,
                   lastPop, processed_count, nextUuid, rows, points, autoLog,
                   s3Attempts, outcome, bg, searchVars, auxVars>>

(* ------------------------------ worker ---------------------------------- *)

\* process_loop: `while self.is_running` is false.
loop_exit(w) ==
    /\ pc[w] = "loop"
    /\ ~is_running[w]
    /\ pc' = [pc EXCEPT ![w] = "returned"]
    /\ UNCHANGED <<queue, nextPath, popped, mgr, stopIdx, is_running, cur,
                   lastPop, processed_count, nextUuid, rows, points, autoLog,
                   s3Attempts, outcome, bg, faults, searchVars, files, auxVars>>

\* process_video_segment returns `res` for the job worker w holds;
\* process_loop then counts it or not and goes round the loop.
finish_job(w, path, res, stored, oc) ==
    LET counted == counts_as_processed(res, stored) IN
    /\ processed_count' =
          [processed_count EXCEPT ![w] = IF counted THEN @ + 1 ELSE @]
    /\ outcome' = [outcome EXCEPT
                      ![path] = [oc EXCEPT !.result = res,
                                           !.counted = counted]]
    /\ cur' = [cur EXCEPT ![w] = NoJob]
    /\ pc' = [pc EXCEPT ![w] = after_result(res)]

\* get_video_segment returns a job (BRPOP); process_video_segment checks the
\* file and mints the linking UUID before its first await.
get_video_segment(w) ==
    /\ pc[w] = "loop"
    /\ is_running[w]
    /\ queue # <<>>
    /\ LET job == brpop_value(queue)
           path == job.video_path
       IN
       /\ queue' = brpop_rest(queue)
       /\ popped' = Append(popped, path)
       /\ lastPop' = [lastPop EXCEPT ![w] = "job"]
       /\ LET exists == path \in files IN
             /\ IF file_missing(exists)
                THEN /\ finish_job(w, path, "error", FALSE,
                                   [outcome[path] EXCEPT !.file = "missing"])
                     /\ UNCHANGED nextUuid
                ELSE /\ cur' = [cur EXCEPT ![w] =
                                  [NoJob EXCEPT
                                     !.path = path,
                                     !.user_id = job.metadata_user_id,
                                     !.linking_uuid =
                                         generate_linking_uuid(nextUuid)]]
                     /\ outcome' = [outcome EXCEPT
                                      ![path].uuid =
                                          generate_linking_uuid(nextUuid),
                                      ![path].user_id = job.metadata_user_id]
                     /\ nextUuid' = nextUuid + 1
                     /\ pc' = [pc EXCEPT ![w] = "phase1"]
                     /\ UNCHANGED processed_count
    /\ UNCHANGED <<nextPath, mgr, stopIdx, is_running, rows, points, autoLog,
                   s3Attempts, bg, faults, searchVars, files, auxVars>>

\* get_video_segment returns None: BRPOP timed out on an empty list, or the
\* broker call raised (queue_manager.py:101); process_loop sleeps 1 s.
get_video_segment_none(w) ==
    /\ pc[w] = "loop"
    /\ is_running[w]
    /\ \E why \in {"timeout", "error"} :
          /\ why = "timeout" => queue = <<>>
          /\ why = "error" => may_fail(0)
          /\ faults' = faults + charge(why = "error", 0)
          /\ lastPop' = [lastPop EXCEPT ![w] = why]
    /\ pc' = [pc EXCEPT ![w] = "sleep"]
    /\ UNCHANGED <<queue, nextPath, popped, mgr, stopIdx, is_running, cur,
                   processed_count, nextUuid, rows, points, autoLog,
                   s3Attempts, outcome, bg, searchVars, files, auxVars>>

\* process_loop: asyncio.sleep(1) is over.
wake(w) ==
    /\ pc[w] = "sleep"
    /\ pc' = [pc EXCEPT ![w] = "loop"]
    /\ UNCHANGED <<queue, nextPath, popped, mgr, stopIdx, is_running, cur,
                   lastPop, processed_count, nextUuid, rows, points, autoLog,
                   s3Attempts, outcome, bg, faults, searchVars, files, auxVars>>

\* Phase 1: asyncio.gather of the ingest upload (with its wait-for-ready),
\* the blob upload and the embedding-task creation has returned.
phase1(w) ==
    /\ pc[w] = "phase1"
    /\ LET c == cur[w]
           path == c.path
       IN
       \E ingest \in IngestResults, s3ok \in BOOLEAN,
          embok \in BOOLEAN :
          LET tl == IF ingest = "ready" THEN twelvelabs_video_id(path)
                                        ELSE NoneId
              nfail == B2N(ingest # "ready") + B2N(~s3ok) + B2N(~embok)
              oc == [outcome[path] EXCEPT
                        !.ingest = ingest,
                        !.blob = IF s3ok THEN "ok" ELSE "failed"]
          IN
          /\ faults + nfail <= MaxFaults
          /\ faults' = faults + nfail
          /\ s3Attempts' = [s3Attempts EXCEPT ![path] = @ + 1]
          /\ IF upload_failed(tl)
             THEN /\ finish_job(w, path, "error", FALSE, oc)
                  /\ UNCHANGED bg
             ELSE /\ cur' = [cur EXCEPT ![w] =
                               [c EXCEPT !.tl_id = tl,
                                         !.s3_url = s3_url_checked(s3ok, path),
                                         !.embedding_task = embok]]
                  /\ bg' = IF embok
                           THEN bg \cup {[kind |-> "embedding",
                                          linking_uuid |-> c.linking_uuid,
                                          user_id |-> c.user_id,
                                          attempt |-> 0]}
                           ELSE bg
                  /\ outcome' = [outcome EXCEPT ![path] = oc]
                  /\ pc' = [pc EXCEPT ![w] = "analyze"]
                  /\ UNCHANGED processed_count
    /\ UNCHANGED <<queue, nextPath, popped, mgr, stopIdx, is_running, lastPop,
                   nextUuid, rows, points, autoLog, searchVars, files, auxVars>>

\* One attempt of analyze_video_optimized; after the attempt that returns
\* (success, or the last failure) process_video_segment assembles the
\* analysis, creates the insert task and, for a truthy summary, the
\* automation task (worker.py:214-249).
analyze(w) ==
    /\ pc[w] = "analyze"
    /\ LET c == cur[w]
           path == c.path
       IN
       \E data \in {"text", "", "raise"} :
          /\ data # "text" => may_fail(c.attempt)
          /\ faults' = faults + charge(data # "text", c.attempt)
          /\ IF data = "raise" /\ c.attempt < max_retries - 1
             THEN /\ cur' = [cur EXCEPT ![w].attempt = @ + 1]
                  /\ UNCHANGED <<pc, bg, outcome>>
             ELSE LET summary == IF data = "raise"
                                 THEN failed_summary
                                 ELSE generated_summary(data)
                  IN
                  /\ cur' = [cur EXCEPT ![w].summary = summary]
                  /\ outcome' = [outcome EXCEPT ![path].summary =
                                    IF data = "raise" THEN "failed"
                                    ELSE IF data = "" THEN "empty" ELSE "ok"]
                  /\ bg' = IF starts_automation(summary)
                           THEN bg \cup {[kind |-> "automation",
                                          linking_uuid |-> c.linking_uuid,
                                          user_id |-> c.user_id,
                                          attempt |-> 0]}
                           ELSE bg
                  /\ pc' = [pc EXCEPT ![w] = "insert"]
    /\ UNCHANGED <<queue, nextPath, popped, mgr, stopIdx, is_running, lastPop,
                   processed_count, nextUuid, rows, points, autoLog,
                   s3Attempts, searchVars, files, auxVars>>

\* `await supabase_task` returns: the row was inserted or the insert
\* failed; on success the fallback embedding task is started when no
\* embedding task had been created in phase 1 (worker.py:252-281).
insert(w) ==
    /\ pc[w] = "insert"
    /\ LET c == cur[w]
           path == c.path
       IN
       \E stored \in BOOLEAN :
          /\ ~stored => may_fail(0)
          /\ faults' = faults + charge(~stored, 0)
          /\ rows' = IF stored
                     THEN rows \cup {video_record(c, c.user_id)}
                     ELSE rows
          /\ bg' = IF stored /\ ~c.embedding_task
                   THEN bg \cup {[kind |-> "fallback",
                                  linking_uuid |-> c.linking_uuid,
                                  user_id |-> c.user_id,
                                  attempt |-> 0]}
                   ELSE bg
          /\ finish_job(w, path, "analysis", stored,
                        [outcome[path] EXCEPT
                            !.insert = IF stored THEN "ok" ELSE "failed"])
    /\ UNCHANGED <<queue, nextPath, popped, mgr, stopIdx, is_running, lastPop,
                   nextUuid, points, autoLog, s3Attempts, searchVars, files, auxVars>>

(* ------------------------- background tasks ----------------------------- *)

\* The job a linking UUID was minted for.
PathOf(linking_uuid) == CHOOSE p \in Paths : outcome[p].uuid = linking_uuid

\* process_embedding_task: wait for the embedding, retrieve it, store the
\* point; any failure ends the task.
process_embedding_task(t) ==
    /\ t \in bg
    /\ t.kind = "embedding"
    /\ \E ok \in BOOLEAN :
          /\ ~ok => may_fail(0)
          /\ faults' = faults + charge(~ok, 0)
          /\ points' = IF ok
                       THEN store_embedding_in_vector_db(points,
                                t.linking_uuid, t.user_id)
                       ELSE points
          /\ outcome' = [outcome EXCEPT
                ![PathOf(t.linking_uuid)].vec_attempts = @ + 1,
                ![PathOf(t.linking_uuid)].vec_failed = @ \/ ~ok]
    /\ bg' = bg \ {t}
    /\ UNCHANGED <<queue, nextPath, popped, mgr, stopIdx, is_running, pc,
                   cur, lastPop, processed_count, nextUuid, rows, autoLog,
                   s3Attempts, searchVars, files, auxVars>>

\* One attempt of embed_and_store_video inside
\* embed_and_store_video_with_retry (the fallback path).
\* embed_and_store_video catches every Exception and returns False
\* (worker.py:584-586), so a failed attempt is never a raised one.
embed_and_store_video_with_retry(t) ==
    /\ t \in bg
    /\ t.kind = "fallback"
    /\ \E ok \in BOOLEAN :
          /\ ~ok => may_fail(t.attempt)
          /\ faults' = faults + charge(~ok, t.attempt)
          /\ outcome' = [outcome EXCEPT
                ![PathOf(t.linking_uuid)].vec_attempts = @ + 1,
                ![PathOf(t.linking_uuid)].vec_failed = @ \/ ~ok,
                ![PathOf(t.linking_uuid)].vec_slept =
                    @ + (IF ok THEN 0 ELSE retry_sleep(FALSE, t.attempt))]
          /\ IF ok
             THEN /\ points' = store_embedding_in_vector_db(points,
                                   t.linking_uuid, t.user_id)
                  /\ bg' = bg \ {t}
             ELSE /\ points' = points
                  /\ bg' = IF t.attempt < embed_max_retries - 1
                           THEN (bg \ {t}) \cup
                                    {[t EXCEPT !.attempt = t.attempt + 1]}
                           ELSE bg \ {t}
    /\ UNCHANGED <<queue, nextPath, popped, mgr, stopIdx, is_running, pc,
                   cur, lastPop, processed_count, nextUuid, rows, autoLog,
                   s3Attempts, searchVars, files, auxVars>>

\* One attempt of run_automations_with_retry: the controller is called with
\* the linking UUID and returns its result dictionary.
run_automations_with_retry(t) ==
    /\ t \in bg
    /\ t.kind = "automation"
    /\ \E failed \in BOOLEAN :
          /\ failed => may_fail(t.attempt)
          /\ faults' = faults + charge(failed, t.attempt)
          /\ autoLog' = autoLog \cup
                {automation_results(t.linking_uuid, t.user_id, failed)}
          /\ bg' = IF failed /\ t.attempt < automation_max_retries - 1
                   THEN (bg \ {t}) \cup {[t EXCEPT !.attempt = t.attempt + 1]}
                   ELSE bg \ {t}
    /\ UNCHANGED <<queue, nextPath, popped, mgr, stopIdx, is_running, pc,
                   cur, lastPop, processed_count, nextUuid, rows, points,
                   s3Attempts, outcome, searchVars, files, auxVars>>

(* --------------------------- worker manager ----------------------------- *)

\* Calls of stop_workers in one run: the signal handler's and the one in
\* main's finally.
MaxStopCalls == 2

\* worker_manager.py:56 -- `if not self.is_running: return`
stop_workers_returns(manager_state) == manager_state # "running"

\* SIGINT or SIGTERM was delivered (or main reached its finally) and
\* stop_workers is entered with the manager running.
stop_workers_begin ==
    /\ ~stop_workers_returns(mgr)
    /\ mgr' = "stopping"
    /\ stopIdx' = 0
    /\ stop_calls' = stop_calls + 1
    /\ UNCHANGED <<queue, nextPath, popped, is_running, pc, cur, lastPop,
                   processed_count, nextUuid, rows, points, autoLog,
                   s3Attempts, outcome, bg, faults, searchVars, files, seg,
                   events, wait, capture, sideVars,
                   lateVars>>

\* stop_workers is called when the manager is no longer running.
stop_workers_again ==
    /\ stop_workers_returns(mgr)
    /\ stop_calls < MaxStopCalls
    /\ stop_calls' = stop_calls + 1
    /\ UNCHANGED <<queue, nextPath, popped, mgr, stopIdx, is_running, pc,
                   cur, lastPop, processed_count, nextUuid, rows, points,
                   autoLog, s3Attempts, outcome, bg, faults, searchVars,
                   files, seg, events, wait, capture, sideVars,
                   lateVars>>

\* A stop that leaves the worker's flag alone.
worker_stop_skip ==
    /\ mgr = "stopping"
    /\ stopIdx < NumWorkers
    /\ stopIdx' = stopIdx + 1
    /\ UNCHANGED <<queue, nextPath, popped, mgr, is_running, pc, cur, lastPop,
                   processed_count, nextUuid, rows, points, autoLog,
                   s3Attempts, outcome, bg, faults, searchVars, files,
                   auxVars>>

\* stop_workers: `await worker.stop()` for the next worker.
worker_stop ==
    /\ mgr = "stopping"
    /\ stopIdx < NumWorkers
    /\ is_running' = [is_running EXCEPT ![stopIdx] = FALSE]
    /\ stopIdx' = stopIdx + 1
    /\ UNCHANGED <<queue, nextPath, popped, mgr, pc, cur, lastPop,
                   processed_count, nextUuid, rows, points, autoLog,
                   s3Attempts, outcome, bg, faults, searchVars, files, auxVars>>

\* stop_workers: task.cancel() on every worker task that is not done.
\* CancelledError is raised at the worker's current await; it is not an
\* Exception, so only process_loop catches it, and the loop breaks.
cancel_tasks ==
    /\ mgr = "stopping"
    /\ stopIdx = NumWorkers
    /\ mgr' = "stopped"
    /\ pc' = [w \in Workers |->
                 IF pc[w] = "returned" THEN "returned" ELSE "cancelled"]
    /\ cur' = [w \in Workers |-> NoJob]
    /\ outcome' = [p \in Paths |->
                      IF \E w \in Workers : cur[w].path = p
                      THEN [outcome[p] EXCEPT !.lost = TRUE]
                      ELSE outcome[p]]
    /\ UNCHANGED <<queue, nextPath, popped, stopIdx, is_running, lastPop,
                   processed_count, nextUuid, rows, points, autoLog,
                   s3Attempts, bg, faults, searchVars, files, auxVars>>

(* ------------------------- the pipeline as a whole ---------------------- *)

Next ==
    \/ \E u \in Users : add_video_segment(u)
    \/ \E n \in 1 .. MaxBatch, u \in Users : add_batch_segments(n, u)
    \/ \E p \in Paths : file_removed(p)
    \/ \E w \in Workers : get_video_segment(w)
    \/ \E w \in Workers : get_video_segment_none(w)
    \/ \E w \in Workers : wake(w)
    \/ \E w \in Workers : phase1(w)
    \/ \E w \in Workers : analyze(w)
    \/ \E w \in Workers : insert(w)
    \/ \E t \in bg : process_embedding_task(t)
    \/ \E t \in bg : embed_and_store_video_with_retry(t)
    \/ \E t \in bg : run_automations_with_retry(t)

Spec == Init /\ [][Next]_vars

(* -------------------- the automation controller ------------------------- *)

\* The automations the controller knows (automation_controller.py:66, :74).
AcceptedLabels == {"calendar", "highlights"}

\* Labels a classifier answer can hold: the two accepted ones and one the
\* controller does not know.
Labels == AcceptedLabels \cup {"email"}

\* Words a summary is made of, as written.
Words == {"Meeting", "recalled", "IMPORTANT", "walk"}

\* summary_analyzer.py:113 -- summary.lower(), word by word.
lower(word) ==
    IF word = "Meeting" THEN "meeting"
    ELSE IF word = "IMPORTANT" THEN "important"
    ELSE word

\* summary_analyzer.py:116-127, :132-142 -- the keywords that occur in the
\* words of the model (`keyword in summary_lower` is a substring test:
\* "recalled" holds "call").
calendar_keywords == {"meeting", "call"}
highlights_keywords == {"important"}

\* The keywords that are substrings of a lower-case word.
substrings(word) ==
    IF word = "meeting" THEN {"meeting"}
    ELSE IF word = "recalled" THEN {"call"}
    ELSE IF word = "important" THEN {"important"}
    ELSE {}

\* summary_analyzer.py:128, :143 -- any(keyword in summary_lower ...)
keyword_occurs(summary, keywords) ==
    \E word \in summary : substrings(lower(word)) \cap keywords # {}

\* summary_analyzer.py:100-146
determine_triggered_automations(summary) ==
    (IF keyword_occurs(summary, calendar_keywords)
     THEN {"calendar"} ELSE {})
    \cup (IF keyword_occurs(summary, highlights_keywords)
          THEN {"highlights"} ELSE {})

\* What the classifier call can end with: an exception, a text that is not
\* JSON, no content, a JSON object with a list under triggered_automations,
\* a JSON object without that key or with null under it, and JSON that is
\* not an object.
ClassifierResponses ==
    {[kind |-> k, labels |-> {}] :
        k \in {"raise", "not_json", "no_content", "object_without_key",
               "object_null_list", "json_array", "json_null"}}
    \cup {[kind |-> "object", labels |-> l] : l \in SUBSET Labels}

\* summary_analyzer.py:36-89 -- the analysis handed to the controller.
\* json.loads of no content raises TypeError, which the outer handler
\* answers with the fallback as well.
analyze_summary(summary, resp) ==
    IF resp.kind \in {"raise", "not_json", "no_content"}
    THEN [kind |-> "object",
          labels |-> determine_triggered_automations(summary)]
    ELSE resp

\* automation_controller.py:58-80 -- analysis_result.get and the two
\* membership tests raise for an analysis that is no dict or whose list is
\* null.
dispatch_raises(analysis) ==
    analysis.kind \in {"object_null_list", "json_array", "json_null"}

\* A controller that runs every automation it knows.
selected_all(analysis) == <<"calendar", "highlights">>

\* automation_controller.py:63-80 -- the coroutines appended, in order.
selected(analysis) ==
    (IF "calendar" \in analysis.labels THEN <<"calendar">> ELSE <<>>)
    \o (IF "highlights" \in analysis.labels THEN <<"highlights">> ELSE <<>>)

\* automation_controller.py:84-95, :112-159 -- gather with
\* return_exceptions=True gives one result per coroutine, in order.
gathered(tasks, raising) ==
    [i \in 1 .. Len(tasks) |->
        IF tasks[i] \in raising
        THEN [type |-> "error", status |-> "failed", error |-> TRUE]
        ELSE [type |-> tasks[i], status |-> "success", error |-> FALSE]]

\* automation_controller.py:28-110
process_video_summary(summary, resp, raising) ==
    LET analysis == analyze_summary(summary, resp) IN
    IF dispatch_raises(analysis)
    THEN [error |-> TRUE, automations_triggered |-> <<>>]
    ELSE [error |-> FALSE,
          automations_triggered |-> gathered(selected(analysis), raising)]

process_video_summary_call ==
    /\ controller.pc = "idle"
    /\ \E summary \in SUBSET Words, resp \in ClassifierResponses,
          raising \in SUBSET AcceptedLabels :
          controller' = [pc |-> "done", summary |-> summary, resp |-> resp,
                         raising |-> raising,
                         result |-> process_video_summary(summary, resp,
                                                          raising)]
    /\ UNCHANGED <<pipeVars, points, searchVars, stop_calls, seg, events,
                   wait, capture, sideVars, waiter, lifecycle, system>>

\* worker.py:710-747 -- the caller has looked at the result.
process_video_summary_next ==
    /\ controller.pc = "done"
    /\ controller' = NoController
    /\ UNCHANGED <<pipeVars, points, searchVars, stop_calls, seg, events,
                   wait, capture, sideVars, waiter, lifecycle, system>>

ControllerNext ==
    \/ process_video_summary_call
    \/ process_video_summary_next

ControllerSpec == Init /\ [][ControllerNext]_vars

(* ------------------ the pipeline with a running event loop -------------- *)

\* Segments pushed in a run whose background tasks are followed to the end.
MaxFairJobs == 2

add_video_segment_upto(user) ==
    /\ nextPath <= MaxFairJobs
    /\ add_video_segment(user)

\* The pool at work, without shutdown, fed by the capture process.
FairNext ==
    \/ add_video_segment_upto(CaptureUser)
    \/ \E w \in Workers : get_video_segment(w)
    \/ \E w \in Workers : get_video_segment_none(w)
    \/ \E w \in Workers : wake(w)
    \/ \E w \in Workers : phase1(w)
    \/ \E w \in Workers : analyze(w)
    \/ \E w \in Workers : insert(w)
    \/ \E t \in bg : process_embedding_task(t)
    \/ \E t \in bg : embed_and_store_video_with_retry(t)
    \/ \E t \in bg : run_automations_with_retry(t)

\* A background task is an asyncio task of the worker process: the event
\* loop runs it whenever it is ready, whatever the worker loop is doing.
FairSpec ==
    /\ Init
    /\ [][FairNext]_vars
    /\ WF_vars(\E t \in bg : process_embedding_task(t))
    /\ WF_vars(\E t \in bg : embed_and_store_video_with_retry(t))

\* The same run with the workers' own steps taken whenever they stay
\* possible: every external call of a worker eventually returns.
DrainSpec ==
    /\ FairSpec
    /\ \A w \in Workers :
          /\ WF_vars(get_video_segment(w))
          /\ WF_vars(wake(w))
          /\ WF_vars(phase1(w))
          /\ WF_vars(analyze(w))
          /\ WF_vars(insert(w))

(* -------------------- the pipeline with its shutdown -------------------- *)

ShutdownNext ==
    \/ \E u \in Users : add_video_segment(u)
    \/ \E n \in 1 .. MaxBatch, u \in Users : add_batch_segments(n, u)
    \/ \E w \in Workers : get_video_segment(w)
    \/ \E w \in Workers : get_video_segment_none(w)
    \/ \E w \in Workers : wake(w)
    \/ \E w \in Workers : phase1(w)
    \/ \E w \in Workers : analyze(w)
    \/ \E w \in Workers : insert(w)
    \/ \E t \in bg : process_embedding_task(t)
    \/ \E t \in bg : run_automations_with_retry(t)
    \/ \E w \in Workers : loop_exit(w)
    \/ stop_workers_begin
    \/ worker_stop
    \/ cancel_tasks

\* Shutdown is explored with every external call succeeding; the fallback
\* embedding task, which is started only after a failed embedding-task
\* creation, therefore never exists here.
ShutdownInit == Started /\ AuxIdle /\ faults = MaxFaults

ShutdownSpec == ShutdownInit /\ [][ShutdownNext]_vars

\* Segments pushed in a run that ends with a shutdown.
MaxShutdownJobs == 1

add_video_segment_then(user) ==
    /\ nextPath <= MaxShutdownJobs
    /\ add_video_segment(user)

\* The pool from its start to the end of the process: the signal handler's
\* stop_workers and the second call in main's finally.
ShutdownFairNext ==
    \/ \E u \in Users : add_video_segment_then(u)
    \/ \E w \in Workers : get_video_segment(w)
    \/ \E w \in Workers : get_video_segment_none(w)
    \/ \E w \in Workers : wake(w)
    \/ \E w \in Workers : phase1(w)
    \/ \E w \in Workers : analyze(w)
    \/ \E w \in Workers : insert(w)
    \/ \E t \in bg : process_embedding_task(t)
    \/ \E t \in bg : run_automations_with_retry(t)
    \/ \E w \in Workers : loop_exit(w)
    \/ stop_workers_begin
    \/ stop_workers_again
    \/ worker_stop
    \/ cancel_tasks

\* The event loop runs the stop_workers task to its end: each of its steps
\* is taken once it can be.
ShutdownFairSpec ==
    /\ ShutdownInit
    /\ [][ShutdownFairNext]_vars
    /\ WF_vars(worker_stop)
    /\ WF_vars(cancel_tasks)

(* ------------------- the pool from its construction --------------------- *)

\* worker_manager.py:94 and :134 -- sum(1 for worker in workers if
\* worker.is_running)
active_workers == Cardinality({w \in Workers : is_running[w]})

RECURSIVE sum_processed_count(_)
sum_processed_count(ws) ==
    IF ws = {} THEN 0
    ELSE LET w == CHOOSE x \in ws : TRUE IN
         processed_count[w] + sum_processed_count(ws \ {w})

\* worker_manager.py:97 and :135 -- sum(worker.processed_count ...)
total_processed == sum_processed_count(Workers)

\* worker.py:39-56 -- start sets is_running, then connects to the queue; a
\* failed connection makes it return, and nothing else is assigned.
start(w, connected) ==
    /\ mgr = "running"
    /\ pc[w] = "created"
    /\ is_running' = [is_running EXCEPT ![w] = TRUE]
    /\ pc' = [pc EXCEPT ![w] = IF connected THEN "loop" ELSE "returned"]
    /\ UNCHANGED <<queue, nextPath, popped, mgr, stopIdx, cur, lastPop,
                   processed_count, nextUuid, rows, points, autoLog,
                   s3Attempts, outcome, bg, faults, searchVars, files,
                   auxVars>>

\* worker.py:36-37 and worker_manager.py:32-44 -- the workers are
\* constructed (is_running False, processed_count 0) and their tasks are
\* created; none has run yet.
PoolInit ==
    /\ queue = <<>>
    /\ nextPath = 1
    /\ popped = <<>>
    /\ mgr = "running"
    /\ stopIdx = 0
    /\ is_running = [w \in Workers |-> FALSE]
    /\ pc = [w \in Workers |-> "created"]
    /\ cur = [w \in Workers |-> NoJob]
    /\ lastPop = [w \in Workers |-> "none"]
    /\ processed_count = [w \in Workers |-> 0]
    /\ nextUuid = 1
    /\ rows = {}
    /\ points = {}
    /\ autoLog = {}
    /\ s3Attempts = [p \in Paths |-> 0]
    /\ outcome = [p \in Paths |-> NoOutcome]
    /\ bg = {}
    /\ searchCaller = ""
    /\ searchResults = {}
    /\ files = {}
    /\ faults = MaxFaults
    /\ AuxIdle

PoolNext ==
    \/ \E w \in Workers, connected \in BOOLEAN : start(w, connected)
    \/ \E u \in Users : add_video_segment_then(u)
    \/ \E w \in Workers : get_video_segment(w)
    \/ \E w \in Workers : get_video_segment_none(w)
    \/ \E w \in Workers : wake(w)
    \/ \E w \in Workers : phase1(w)
    \/ \E w \in Workers : analyze(w)
    \/ \E w \in Workers : insert(w)
    \/ \E t \in bg : process_embedding_task(t)
    \/ \E t \in bg : run_automations_with_retry(t)
    \/ \E w \in Workers : loop_exit(w)
    \/ stop_workers_begin
    \/ worker_stop
    \/ cancel_tasks

PoolSpec == PoolInit /\ [][PoolNext]_vars

(* ------------------ combined mode: capture plus workers ------------------ *)

\* SIGINTs delivered in one run of the combined mode.
MaxSigints == 2

\* signal.signal(signum, handler): the process has one handler per signal
\* number, and a registration replaces the one before it.
signal_signal(installed, handler) == handler

\* main.py:52-55 -- start_both_systems has created its two tasks; neither
\* has run yet, and SIGINT still has the interpreter's default handler.
CombinedMode ==
    [pc |-> "created", handler |-> "default", is_recording |-> FALSE,
     sigints |-> 0, stop_task |-> FALSE, ingestion |-> "created",
     workers |-> "created"]

\* ingestion.py:467-499 -- the first task runs up to its first await:
\* the handler of the capture loop is registered and recording starts.
start_ingestion ==
    /\ lifecycle.pc = "created"
    /\ lifecycle.ingestion = "created"
    /\ lifecycle' = [lifecycle EXCEPT
                       !.handler = signal_signal(@, "ingestion"),
                       !.is_recording = TRUE,
                       !.ingestion = "running"]
    /\ UNCHANGED <<pipeVars, points, searchVars, stop_calls, seg, events,
                   wait, capture, sideVars, controller, waiter, system>>

\* worker_manager.py:26-52 -- the second task, after its await of the queue
\* connection: the worker tasks are created, is_running is set and
\* _setup_signal_handlers registers the manager's handler.
start_workers ==
    /\ lifecycle.pc = "created"
    /\ lifecycle.ingestion # "created"
    /\ lifecycle.workers = "created"
    /\ lifecycle' = [lifecycle EXCEPT
                       !.handler = signal_signal(@, "workers"),
                       !.workers = "running"]
    /\ UNCHANGED <<pipeVars, points, searchVars, stop_calls, seg, events,
                   wait, capture, sideVars, controller, waiter, system>>

\* A SIGINT is delivered; the interpreter runs the installed handler.
\* ingestion.py:459-463 clears is_recording; worker_manager.py:121-124
\* creates a task for stop_workers and touches nothing else.
sigint ==
    /\ lifecycle.pc = "created"
    /\ lifecycle.handler # "default"
    /\ lifecycle.sigints < MaxSigints
    /\ lifecycle' = [lifecycle EXCEPT
                       !.sigints = @ + 1,
                       !.is_recording =
                           IF lifecycle.handler = "ingestion" THEN FALSE
                           ELSE @,
                       !.stop_task =
                           IF lifecycle.handler = "workers" THEN TRUE
                           ELSE @]
    /\ UNCHANGED <<pipeVars, points, searchVars, stop_calls, seg, events,
                   wait, capture, sideVars, controller, waiter, system>>

\* ingestion.py:368 -- one turn of process_segments' loop, which pushes a
\* segment while is_recording holds.
process_segments_turn ==
    /\ lifecycle.pc = "created"
    /\ lifecycle.ingestion = "running"
    /\ lifecycle.is_recording
    /\ add_video_segment_then(CaptureUser)

\* ingestion.py:368, 494-499 -- the loop sees is_recording false,
\* stop_ingestion runs and start_ingestion returns.
start_ingestion_returns ==
    /\ lifecycle.pc = "created"
    /\ lifecycle.ingestion = "running"
    /\ ~lifecycle.is_recording
    /\ lifecycle' = [lifecycle EXCEPT !.ingestion = "returned"]
    /\ UNCHANGED <<pipeVars, points, searchVars, stop_calls, seg, events,
                   wait, capture, sideVars, controller, waiter, system>>

\* worker_manager.py:88 -- monitor_workers leaves its loop once the manager
\* is not running, and start_workers returns.
start_workers_returns ==
    /\ lifecycle.pc = "created"
    /\ lifecycle.workers = "running"
    /\ mgr # "running"
    /\ lifecycle' = [lifecycle EXCEPT !.workers = "returned"]
    /\ UNCHANGED <<pipeVars, points, searchVars, stop_calls, seg, events,
                   wait, capture, sideVars, controller, waiter, system>>

\* main.py:58 -- gather returns when both tasks have returned.
start_both_systems_returns ==
    /\ lifecycle.pc = "created"
    /\ lifecycle.ingestion = "returned"
    /\ lifecycle.workers = "returned"
    /\ lifecycle' = [lifecycle EXCEPT !.pc = "returned"]
    /\ UNCHANGED <<pipeVars, points, searchVars, stop_calls, seg, events,
                   wait, capture, sideVars, controller, waiter, system>>

\* The task the manager's handler created: stop_workers.
handler_stop_workers ==
    /\ lifecycle.stop_task
    /\ stop_workers_begin

\* The worker tasks exist from start_workers on.
worker_tasks_step ==
    /\ lifecycle.workers # "created"
    /\ \/ \E w \in Workers : get_video_segment(w)
       \/ \E w \in Workers : get_video_segment_none(w)
       \/ \E w \in Workers : wake(w)
       \/ \E w \in Workers : phase1(w)
       \/ \E w \in Workers : analyze(w)
       \/ \E w \in Workers : insert(w)
       \/ \E t \in bg : process_embedding_task(t)
       \/ \E t \in bg : run_automations_with_retry(t)
       \/ \E w \in Workers : loop_exit(w)
       \/ worker_stop
       \/ cancel_tasks

LifecycleNext ==
    \/ start_ingestion
    \/ start_workers
    \/ sigint
    \/ process_segments_turn
    \/ start_ingestion_returns
    \/ start_workers_returns
    \/ start_both_systems_returns
    \/ handler_stop_workers
    \/ worker_tasks_step

\* The pool's variables hold the values start_workers gives them; no action
\* on them is enabled before start_workers.
LifecycleInit ==
    /\ Started
    /\ faults = MaxFaults
    /\ stop_calls = 0
    /\ seg = NoSeg
    /\ events = <<>>
    /\ wait = NoWait
    /\ capture = NoCapture
    /\ camera = NoCamera
    /\ api = NoApi
    /\ highlights = NoHighlights
    /\ calendar = NoCalendar
    /\ controller = NoController
    /\ waiter = NoWaiter
    /\ system = NoSystem
    /\ lifecycle = CombinedMode

LifecycleSpec == LifecycleInit /\ [][LifecycleNext]_vars

(* --------------------------- query surface ------------------------------ *)

\* memory.py:125-127 -- the user id handed to the vector search.
search_user_filter(current_user) == HardcodedUser

\* vector_store.search_memories: the must-filter on payload.user_id.
vector_search(pts, user_id) == {p \in pts : p.user_id = user_id}

\* supabase_client.get_video_analysis(video_id) without a user filter.
get_video_analysis(video_id) == {r \in rows : r.video_id = video_id}

\* memory.py:137-168 -- a hit joined to its relational row.
enriched_result(p) ==
    LET data == get_video_analysis(p.video_id) IN
    [id |-> p.id, video_id |-> p.video_id, payload_user_id |-> p.user_id,
     detailed_summary |->
        IF data = {} THEN "Data not found"
        ELSE (CHOOSE r \in data : TRUE).detailed_summary]

\* POST /memory/create: a point with a fresh id for the authenticated user.
create_memory(current_user) ==
    /\ nextUuid <= MaxMemories
    /\ points' = add_memory(points,
                            [id |-> generate_linking_uuid(nextUuid),
                             user_id |-> current_user,
                             embedding |-> "text_embedding"])
    /\ nextUuid' = nextUuid + 1
    /\ UNCHANGED <<queue, nextPath, popped, mgr, stopIdx, is_running, pc,
                   cur, lastPop, processed_count, rows, autoLog, s3Attempts,
                   outcome, bg, faults, searchVars, files, auxVars>>

\* A segment of `job_user` went through a worker with every call
\* succeeding: its row is committed and its embedding is stored.
segment_stored(job_user, summary) ==
    /\ nextUuid <= MaxMemories
    /\ LET uuid == generate_linking_uuid(nextUuid) IN
       /\ rows' = rows \cup
             {video_record([linking_uuid |-> uuid, summary |-> summary,
                            s3_url |-> NoneId, tl_id |-> NoneId], job_user)}
       /\ points' = store_embedding_in_vector_db(points, uuid, job_user)
    /\ nextUuid' = nextUuid + 1
    /\ UNCHANGED <<queue, nextPath, popped, mgr, stopIdx, is_running, pc,
                   cur, lastPop, processed_count, autoLog, s3Attempts,
                   outcome, bg, faults, searchVars, files, auxVars>>

\* POST /memory/search by the authenticated user `current_user`.
search_memories(current_user) ==
    /\ searchCaller' = current_user
    /\ searchResults' =
          {enriched_result(p) :
              p \in vector_search(points, search_user_filter(current_user))}
    /\ UNCHANGED <<queue, nextPath, popped, mgr, stopIdx, is_running, pc,
                   cur, lastPop, processed_count, nextUuid, rows, points,
                   autoLog, s3Attempts, outcome, bg, faults, files,
                   auxVars>>

\* The embedding finalization of a stored segment runs once more:
\* store_embedding_in_vector_db is called with the same linking UUID and
\* the vector the embedding task returned this time.
finalize_embedding_rerun(linking_uuid, vector) ==
    /\ \E r \in rows : r.video_id = linking_uuid
    /\ points' = add_memory(points,
                     [worker_memory_point(linking_uuid, HardcodedUser)
                         EXCEPT !.embedding = vector])
    /\ UNCHANGED <<queue, nextPath, popped, mgr, stopIdx, is_running, pc,
                   cur, lastPop, processed_count, nextUuid, rows, autoLog,
                   s3Attempts, outcome, bg, faults, searchVars, files,
                   auxVars>>

SearchNext ==
    \/ \E u \in Users : create_memory(u)
    \/ \E u \in Users, sm \in {"text", ""} : segment_stored(u, sm)
    \/ \E n \in 1 .. MaxMemories,
          v \in {"embeddings_float", "embeddings_float_again"} :
          finalize_embedding_rerun(generate_linking_uuid(n), v)
    \/ \E u \in Users : search_memories(u)

SearchSpec == Init /\ [][SearchNext]_vars

(* ------------- one process_video_segment call, task by task ------------- *)

\* All coroutines of a worker process run on one event loop; a coroutine
\* runs until its next real suspension.  task.create, task.retrieve and
\* embed.task.create are synchronous calls and do not suspend.

\* Polls of the ingest task before the 180 s cap has passed.
MaxPolls == 3

PollStatus == {"ready", "failed", "processing", "pending", "raise"}
PollEvents == {"poll_ready", "poll_failed", "poll_processing",
               "poll_pending", "poll_raise"}
poll_event(status) ==
    CASE status = "ready" -> "poll_ready"
      [] status = "failed" -> "poll_failed"
      [] status = "processing" -> "poll_processing"
      [] status = "pending" -> "poll_pending"
      [] OTHER -> "poll_raise"

\* worker.py:159-173 -- the UUID is minted, the arguments of asyncio.gather
\* are evaluated (run_in_executor submits the blob upload to the thread pool
\* at once; the two coroutines become tasks in argument order) and the
\* caller suspends on the gather.
segment_begin ==
    /\ seg.pc = "idle"
    /\ seg' = [pc |-> "gather", ingest |-> "scheduled",
               embed |-> "scheduled", blob |-> "running",
               polls |-> 0, attempt |-> 0, slept |-> <<>>,
               summary |-> "none"]
    /\ events' = <<"uuid", "blob_launch">>
    /\ UNCHANGED <<pipeVars, points, searchVars, stop_calls, wait, capture, sideVars,
                   lateVars>>

\* One poll of _wait_for_task_optimized (worker.py:405-431).
poll_step(evs, status) ==
    LET n == seg.polls + 1
        evs2 == Append(evs, poll_event(status))
    IN
    IF status = "ready"
    THEN /\ seg' = [seg EXCEPT !.ingest = "ready", !.polls = n]
         /\ events' = Append(evs2, "ingest_ready")
    ELSE IF status = "failed" \/ n >= MaxPolls
    THEN /\ seg' = [seg EXCEPT !.ingest = "failed", !.polls = n]
         /\ events' = evs2
    ELSE /\ seg' = [seg EXCEPT !.ingest = "sleeping", !.polls = n]
         /\ events' = evs2

\* upload_video_optimized runs: on its first run it creates the ingest
\* task and polls it once before its first asyncio.sleep; later runs are
\* one poll each.  The embedding coroutine, scheduled behind it, runs
\* before the sleep is over.
upload_video_optimized_run ==
    /\ seg.pc = "gather"
    /\ \/ /\ seg.ingest = "scheduled"
          /\ \/ /\ seg' = [seg EXCEPT !.ingest = "failed"]
                /\ events' = Append(events, "ingest_launch_raise")
             \/ \E status \in PollStatus :
                   poll_step(Append(events, "ingest_launch"), status)
       \/ /\ seg.ingest = "sleeping"
          /\ seg.embed # "scheduled"
          /\ \E status \in PollStatus : poll_step(events, status)
    /\ UNCHANGED <<pipeVars, points, searchVars, stop_calls, wait, capture, sideVars,
                   lateVars>>

\* create_video_embedding_task runs (embedding_service.py:18-75): it is the
\* second task of the gather and starts when the first one has suspended
\* or finished.
create_video_embedding_task_run ==
    /\ seg.pc = "gather"
    /\ seg.embed = "scheduled"
    /\ seg.ingest # "scheduled"
    /\ seg' = [seg EXCEPT !.embed = "done"]
    /\ events' = Append(events, "embed_launch")
    /\ UNCHANGED <<pipeVars, points, searchVars, stop_calls, wait, capture, sideVars,
                   lateVars>>

\* s3_manager.upload_video_segment returns in its executor thread.
upload_video_segment_done ==
    /\ seg.pc = "gather"
    /\ seg.blob = "running"
    /\ seg' = [seg EXCEPT !.blob = "done"]
    /\ events' = Append(events, "blob_done")
    /\ UNCHANGED <<pipeVars, points, searchVars, stop_calls, wait, capture, sideVars,
                   lateVars>>

\* worker.py:175-212 -- the gather is complete: a failed ingest returns the
\* error result, otherwise the analysis task is created and awaited.
gather_returns ==
    /\ seg.pc = "gather"
    /\ seg.ingest \in {"ready", "failed"}
    /\ seg.embed = "done"
    /\ seg.blob = "done"
    /\ IF seg.ingest = "failed"
       THEN /\ seg' = [seg EXCEPT !.pc = "done"]
            /\ events' = Append(events, "error_result")
       ELSE /\ seg' = [seg EXCEPT !.pc = "analysis"]
            /\ events' = events
    /\ UNCHANGED <<pipeVars, points, searchVars, stop_calls, wait, capture, sideVars,
                   lateVars>>

\* A backoff that does not grow with the attempt.
summary_backoff_flat(attempt) == 500

\* worker.py:464 -- asyncio.sleep(0.5 * (attempt + 1)), in milliseconds.
summary_backoff(attempt) == 500 * (attempt + 1)

\* One attempt of analyze_video_optimized (worker.py:442-473): the call,
\* and in the except branch the sleep before the next attempt or, on the
\* final attempt, the error summary.
analyze_video_optimized_run ==
    /\ seg.pc = "analysis"
    /\ \E raised \in BOOLEAN :
          IF raised /\ seg.attempt < max_retries - 1
          THEN /\ seg' = [seg EXCEPT
                             !.attempt = @ + 1,
                             !.slept = Append(@, summary_backoff(seg.attempt))]
               /\ events' = Append(events, "summary_call")
          ELSE /\ seg' = [seg EXCEPT
                             !.pc = "insert",
                             !.summary = IF raised THEN "failed" ELSE "ok"]
               /\ events' = events \o <<"summary_call", "summary_returned">>
    /\ UNCHANGED <<pipeVars, points, searchVars, stop_calls, wait, capture, sideVars,
                   lateVars>>

\* worker.py:228-281 -- the insert task is created and awaited, and the
\* analysis is returned.
insert_video_analysis_run ==
    /\ seg.pc = "insert"
    /\ seg' = [seg EXCEPT !.pc = "done"]
    /\ events' = events \o <<"insert_call", "analysis_result">>
    /\ UNCHANGED <<pipeVars, points, searchVars, stop_calls, wait, capture, sideVars,
                   lateVars>>

SegmentNext ==
    \/ segment_begin
    \/ upload_video_optimized_run
    \/ create_video_embedding_task_run
    \/ upload_video_segment_done
    \/ gather_returns
    \/ analyze_video_optimized_run
    \/ insert_video_analysis_run

SegmentSpec == Init /\ [][SegmentNext]_vars

(* ----------------- capture loop and segment builder --------------------- *)

\* Config.FPS and Config.SEGMENT_DURATION are settable (config.py:57, :62);
\* the model runs them small.
Fps == 1
SegmentDuration == 2

\* ingestion.py:213
expected_frames == Fps * SegmentDuration

Min(a, b) == IF a < b THEN a ELSE b

\* The three temporary files of create_video_segment (ingestion.py:200-210).
TempFiles == {"temp_video_path", "temp_audio_path", "final_video_path"}

\* ingestion.py:221-229 -- the number of frames after padding.
padded_count(n) == IF n < expected_frames /\ n > 0 THEN expected_frames ELSE n

\* ingestion.py:272-293 -- ffmpeg muxes with -shortest: the output ends
\* with the shorter of the two streams.  Audio length is counted in frame
\* times.
muxed_frames(video_frames, audio_len) == Min(video_frames, audio_len)

\* ingestion.py:299-321 -- the temporary files removed once the final
\* path is chosen.
unlinked(muxed) ==
    IF muxed THEN {"temp_video_path", "temp_audio_path"}
             ELSE {"temp_audio_path", "final_video_path"}

\* create_video_segment returning None.
NoneInfo == [video_path |-> "", fps |-> 0, frame_count |-> 0,
             duration_seconds_x_fps |-> 0, has_audio |-> FALSE]

\* The steps of create_video_segment at which an exception can start:
\* the creation of each temporary file (ingestion.py:200-210), the video
\* writer (:236-259), the WAV file (:263-270) and the launch of the muxer
\* with an error other than FileNotFoundError (:295).
RaiseSteps == {"none", "temp_video", "temp_audio", "final_video", "writer",
               "wave", "launch"}

\* The muxer's outcome: exit status 0, another exit status, TimeoutExpired
\* after 15 s, FileNotFoundError when there is no ffmpeg (ingestion.py:295-316).
MuxerOutcomes == {"ok", "failed", "timeout", "not_found"}

\* ingestion.py:200-210 -- the temporary files created, and with them the
\* path variables bound, before the step that raised.
created_before(raised) ==
    IF raised = "temp_video" THEN {}
    ELSE IF raised = "temp_audio" THEN {"temp_video_path"}
    ELSE IF raised = "final_video"
    THEN {"temp_video_path", "temp_audio_path"}
    ELSE TempFiles

\* ingestion.py:350-359 -- the except branch builds the list of the three
\* path variables before it removes anything: with one of them unbound the
\* list expression raises UnboundLocalError, nothing is removed and the
\* exception leaves the function.
cleanup(raised) ==
    IF created_before(raised) = TempFiles
    THEN [returned |-> "None", disk |-> {}]
    ELSE [returned |-> "raise", disk |-> created_before(raised)]

\* ingestion.py:193-359.  frames and audio_len are the collected window,
\* raised the step at which an exception starts, ffmpeg the muxer's outcome.
\* The result is the segment_info (or None), how the function ended, the
\* frames in the container, whether the container carries the audio track
\* and the temporary files left on disk.
create_video_segment(frames, audio_len, raised, ffmpeg) ==
    LET n == padded_count(frames)
        has_audio == audio_len > 0
        muxed == has_audio /\ ffmpeg = "ok"
        final_path == IF muxed THEN "final_video_path" ELSE "temp_video_path"
    IN
    IF frames = 0
    THEN [info |-> NoneInfo, returned |-> "None", container_frames |-> 0,
          audio_track |-> FALSE, disk |-> {}]
    ELSE IF raised # "none"
    THEN [info |-> NoneInfo, returned |-> cleanup(raised).returned,
          container_frames |-> 0, audio_track |-> FALSE,
          disk |-> cleanup(raised).disk]
    ELSE [info |-> [video_path |-> final_path,
                    fps |-> Fps,
                    frame_count |-> n,
                    duration_seconds_x_fps |-> n,
                    has_audio |-> has_audio],
          returned |-> "info",
          container_frames |-> IF muxed THEN muxed_frames(n, audio_len)
                                         ELSE n,
          audio_track |-> muxed,
          disk |-> TempFiles \ unlinked(muxed)]

\* process_segments (ingestion.py:368-434): one window has been collected
\* and create_video_segment has run on it in the executor.
process_segments_build ==
    /\ capture.pc = "idle"
    /\ nextPath <= MaxJobs
    /\ \E frames \in 0 .. (expected_frames + 1),
          audio_len \in 0 .. (expected_frames + 1),
          raised \in RaiseSteps,
          ffmpeg \in MuxerOutcomes :
          /\ frames > 0
          /\ raised \in {"wave", "launch"} => audio_len > 0
          /\ (audio_len = 0 \/ raised # "none") => ffmpeg = "ok"
          /\ capture' = [pc |-> "built", frames |-> frames,
                         audio_len |-> audio_len,
                         raised |-> raised, ffmpeg |-> ffmpeg,
                         segment |-> create_video_segment(frames, audio_len,
                                                          raised, ffmpeg)]
    /\ UNCHANGED <<pipeVars, points, searchVars, stop_calls, seg, events,
                   wait, sideVars,
                   lateVars>>

\* process_segments (ingestion.py:436-457): a segment that was built is
\* pushed with add_video_segment; one that was not is dropped, and so is
\* one whose builder raised (the loop's except branch logs, sleeps 1 s and
\* goes on to the next window).
process_segments_enqueue ==
    /\ capture.pc = "built"
    /\ capture' = NoCapture
    /\ IF capture.segment.info = NoneInfo
       THEN UNCHANGED <<queue, nextPath, files>>
       ELSE /\ queue' = lpush(queue, <<job_data(nextPath, CaptureUser)>>)
            /\ files' = IF capture.segment.info.video_path
                              \in capture.segment.disk
                        THEN files \cup {nextPath}
                        ELSE files
            /\ nextPath' = nextPath + 1
    /\ UNCHANGED <<popped, mgr, stopIdx, is_running, pc, cur, lastPop,
                   processed_count, nextUuid, rows, points, autoLog,
                   s3Attempts, outcome, bg, faults, searchVars, stop_calls,
                   seg, events, wait, sideVars,
                   lateVars>>

\* The capture loop feeding the queue, and the workers up to the point where
\* they have looked at the popped job's file.
CaptureNext ==
    \/ process_segments_build
    \/ process_segments_enqueue
    \/ \E p \in Paths : file_removed(p)
    \/ \E w \in Workers : get_video_segment(w)
    \/ \E w \in Workers : get_video_segment_none(w)
    \/ \E w \in Workers : wake(w)

CaptureSpec == Init /\ [][CaptureNext]_vars

(* ------------------- the adaptive wait-for-ready ------------------------ *)

\* Clock ticks per second: every interval the function can compute
\* (0.5 s x 1.2^n up to 2 s, 0.1 s x 2^k) is a whole number of ticks.
Tick == 10000000

\* Transport errors of task.retrieve during one wait: enough for the
\* backoff to reach its cap after a reset.
MaxTransportErrors == 6

\* worker.py:397
max_wait_time == 180 * Tick
\* worker.py:306 -- upload_video_optimized passes polling_interval=0.5
polling_interval == Tick \div 2
\* worker.py:403
max_interval == 2 * Tick

\* An interval that grows without the cap.
pending_interval_unclamped(current_interval) == (current_interval * 12) \div 10

\* worker.py:421 -- min(max_interval, current_interval * 1.2)
pending_interval(current_interval) ==
    Min(max_interval, (current_interval * 12) \div 10)

\* worker.py:418 -- min(polling_interval, current_interval)
processing_interval(current_interval) ==
    Min(polling_interval, current_interval)

\* A backoff that doubles without the cap.
failure_backoff_unclamped(consecutive_failures) ==
    (Tick \div 10) * Pow2(consecutive_failures)

\* worker.py:430 -- min(max_interval, 0.1 * 2 ** consecutive_failures)
failure_backoff(consecutive_failures) ==
    Min(max_interval, (Tick \div 10) * Pow2(consecutive_failures))

\* The statuses task.retrieve can report: an indexing task goes from a
\* pending state to processing and ends ready or failed.
StatusAfter(task) ==
    IF task = "pending"
    THEN {"pending", "processing", "ready", "failed", "error"}
    ELSE {"processing", "ready", "failed", "error"}

\* worker.py:397-403 -- the function is entered.
wait_for_task_begin ==
    /\ wait.pc = "idle"
    /\ wait' = [pc |-> "polling", now |-> 0, poll_at |-> 0,
                current_interval |-> polling_interval,
                consecutive_failures |-> 0, errors |-> 0,
                task |-> "pending", status |-> "none", slept |-> 0,
                result |-> "none"]
    /\ UNCHANGED <<pipeVars, points, searchVars, stop_calls, seg, events,
                   capture, sideVars,
                   lateVars>>

\* Every status a poll can report.
AnyStatus == {"pending", "processing", "ready", "failed", "error"}

\* worker.py:405-434 -- one evaluation of the loop condition and, when it
\* holds, one poll with the sleep that follows it.  Time passes in the
\* sleeps.  The task reports a status in `reported`; at most `limit`
\* calls of task.retrieve raise.
wait_for_task_poll(reported, limit) ==
    /\ wait.pc = "polling"
    /\ IF ~(wait.now < max_wait_time)
       THEN wait' = [wait EXCEPT !.pc = "returned", !.result = "None"]
       ELSE \/ \E status \in StatusAfter(wait.task) \cap reported :
                  IF status = "ready"
                  THEN wait' = [wait EXCEPT !.pc = "returned",
                                            !.poll_at = wait.now,
                                            !.consecutive_failures = 0,
                                            !.status = status,
                                            !.result = "video_id"]
                  ELSE IF status \in {"failed", "error"}
                  THEN wait' = [wait EXCEPT !.pc = "returned",
                                            !.poll_at = wait.now,
                                            !.consecutive_failures = 0,
                                            !.status = status,
                                            !.result = "None"]
                  ELSE LET interval ==
                              IF status = "processing"
                              THEN processing_interval(wait.current_interval)
                              ELSE pending_interval(wait.current_interval)
                       IN wait' = [wait EXCEPT
                                      !.poll_at = wait.now,
                                      !.consecutive_failures = 0,
                                      !.status = status,
                                      !.task = status,
                                      !.current_interval = interval,
                                      !.slept = interval,
                                      !.now = wait.now + interval]
            \/ /\ wait.errors < limit
               /\ LET k == wait.consecutive_failures + 1 IN
                  wait' = [wait EXCEPT
                              !.poll_at = wait.now,
                              !.consecutive_failures = k,
                              !.errors = @ + 1,
                              !.status = "raise",
                              !.slept = failure_backoff(k),
                              !.now = wait.now + failure_backoff(k)]
    /\ UNCHANGED <<pipeVars, points, searchVars, stop_calls, seg, events,
                   capture, sideVars,
                   lateVars>>

wait_for_task_step == wait_for_task_poll(AnyStatus, MaxTransportErrors)

WaitNext ==
    \/ wait_for_task_begin
    \/ wait_for_task_step

WaitSpec == Init /\ [][WaitNext]_vars

(* ---------------- the fixed-interval wait-for-ready --------------------- *)

\* Transport errors of task.retrieve that each of the two waiters meets
\* when they are run on the same task.
MaxWaiterErrors == 2

\* worker.py:342 and performance_test.py:377 -- the interval passed to
\* _wait_for_task_async is 1.0 s.
sleep_interval == Tick

\* How the indexing task ends: with one of the final statuses, or not
\* within the time anybody waits for it.
TaskEnds == {"ready", "failed", "error", "never"}

\* The statuses a task that ends with `final` reports.
Reported(final) == {"pending", "processing", final}

\* The function has returned: its locals are gone; what is kept is the
\* value returned, the last status polled and whether a call had raised.
returned_with(w, status, result) ==
    [pc |-> "returned", final |-> w.final, status |-> status,
     result |-> result, met_errors |-> w.errors > 0]

\* A waiter that gives up at the first transport error.
on_transport_error_give_up(w) == returned_with(w, "raise", "None")

\* worker.py:386-388 -- the except branch logs, sleeps and polls again.
on_transport_error(w) ==
    [w EXCEPT !.status = "raise", !.errors = @ + 1,
              !.now = w.now + sleep_interval]

\* worker.py:366-367 -- the fixed-interval waiter is entered for a task.
wait_for_task_async_begin ==
    /\ waiter.pc = "idle"
    /\ wait.pc = "idle"
    /\ \E final \in TaskEnds :
          waiter' = [pc |-> "polling", final |-> final, now |-> 0,
                     errors |-> 0, task |-> "pending", status |-> "none",
                     result |-> "none"]
    /\ UNCHANGED <<pipeVars, points, searchVars, stop_calls, seg, events,
                   wait, capture, sideVars, controller, lifecycle, system>>

\* worker.py:369-391 -- one evaluation of the loop condition and, when it
\* holds, one poll with the sleep that follows it.
wait_for_task_async_step ==
    /\ waiter.pc = "polling"
    /\ IF ~(waiter.now < max_wait_time)
       THEN waiter' = returned_with(waiter, "timeout", "None")
       ELSE \/ \E status \in StatusAfter(waiter.task)
                                \cap Reported(waiter.final) :
                  IF status = "ready"
                  THEN waiter' = returned_with(waiter, status, "video_id")
                  ELSE IF status \in {"failed", "error"}
                  THEN waiter' = returned_with(waiter, status, "None")
                  ELSE waiter' = [waiter EXCEPT
                                     !.status = status,
                                     !.task = status,
                                     !.now = waiter.now + sleep_interval]
            \/ /\ waiter.errors < MaxWaiterErrors
               /\ waiter' = on_transport_error(waiter)
    /\ UNCHANGED <<pipeVars, points, searchVars, stop_calls, seg, events,
                   wait, capture, sideVars, controller, lifecycle, system>>

\* performance_test.py:388-393 -- once the fixed-interval waiter has
\* returned, the adaptive waiter is run on a task that ends the same way.
wait_for_task_optimized_begin ==
    /\ waiter.pc = "returned"
    /\ wait_for_task_begin

wait_for_task_optimized_step ==
    /\ waiter.pc = "returned"
    /\ wait_for_task_poll(Reported(waiter.final), MaxWaiterErrors)

\* performance_test.py:413-416 -- both results are recorded.
waiters_done ==
    /\ waiter.pc = "returned"
    /\ wait.pc = "returned"
    /\ waiter' = NoWaiter
    /\ wait' = NoWait
    /\ UNCHANGED <<pipeVars, points, searchVars, stop_calls, seg, events,
                   capture, sideVars, controller, lifecycle, system>>

WaitersNext ==
    \/ wait_for_task_async_begin
    \/ wait_for_task_async_step
    \/ wait_for_task_optimized_begin
    \/ wait_for_task_optimized_step
    \/ waiters_done

WaitersSpec == Init /\ [][WaitersNext]_vars

(* ------------------ the frame buffer and its two threads ---------------- *)

\* ingestion.py:45 -- queue.Queue(maxsize=100); the model runs it small.
FrameQueueSize == 2

\* Frames the camera delivers in one run.
MaxFrames == 6

\* queue.Queue.put_nowait: Full is raised when the queue holds maxsize
\* items.
queue_full(q) == Len(q) >= FrameQueueSize

\* capture_frames (ingestion.py:165-174): a frame was read and
\* put_nowait is called; on Full the thread enters the except branch.
capture_frames_put ==
    /\ camera.pc = "read"
    /\ camera.next <= MaxFrames
    /\ IF queue_full(camera.queue)
       THEN camera' = [camera EXCEPT !.pc = "full", !.frame = camera.next,
                                     !.next = @ + 1]
       ELSE camera' = [camera EXCEPT
                          !.queue = Append(@, camera.next),
                          !.next = @ + 1]
    /\ UNCHANGED <<pipeVars, points, searchVars, stop_calls, seg, events,
                   wait, capture, api, highlights, calendar,
                   lateVars>>

\* capture_frames (ingestion.py:177-182): get_nowait in the except branch.
\* It removes the head of the queue; on an empty queue it raises Empty, the
\* `pass` is taken and the frame in hand is never put.
capture_frames_get ==
    /\ camera.pc = "full"
    /\ IF camera.queue = <<>>
       THEN camera' = [camera EXCEPT !.pc = "read",
                                     !.lost = Append(@, camera.frame),
                                     !.handled = camera.frame]
       ELSE camera' = [camera EXCEPT !.pc = "put_again",
                                     !.lost = Append(@, Head(camera.queue)),
                                     !.queue = Tail(@)]
    /\ UNCHANGED <<pipeVars, points, searchVars, stop_calls, seg, events,
                   wait, capture, api, highlights, calendar,
                   lateVars>>

\* capture_frames (ingestion.py:179-180): the second put_nowait; the camera
\* thread is the only producer, so there is room.
capture_frames_put_again ==
    /\ camera.pc = "put_again"
    /\ ~queue_full(camera.queue)
    /\ camera' = [camera EXCEPT !.pc = "read",
                                !.queue = Append(@, camera.frame),
                                !.handled = camera.frame]
    /\ UNCHANGED <<pipeVars, points, searchVars, stop_calls, seg, events,
                   wait, capture, api, highlights, calendar,
                   lateVars>>

\* process_segments (ingestion.py:394-400): one get_nowait of the window
\* assembler, which runs in the event-loop thread.
process_segments_get ==
    /\ camera.queue # <<>>
    /\ camera' = [camera EXCEPT !.queue = Tail(@),
                                !.collected = Append(@, Head(camera.queue))]
    /\ UNCHANGED <<pipeVars, points, searchVars, stop_calls, seg, events,
                   wait, capture, api, highlights, calendar,
                   lateVars>>

\* The camera thread and the event-loop thread are preemptively scheduled;
\* each queue operation is atomic under the queue's mutex.
FrameNext ==
    \/ capture_frames_put
    \/ capture_frames_get
    \/ capture_frames_put_again
    \/ process_segments_get

FrameSpec == Init /\ [][FrameNext]_vars

(* ------------------------------ HTTP API -------------------------------- *)

\* Similarity scores a stored point can have against a query.  Scores and
\* thresholds are counted in thousandths: 0.01 is 10.
Scores == {5, 10, 500}

\* Milliseconds between the two time.time() reads of a handler; the calls
\* made in between take time.
Elapsed == {1, 2}

\* The Authorization header of a request: absent, a token that does not
\* verify, or the token issued to a user.
Tokens == {"none", "invalid"} \cup Users

\* Python None for an optional number.
NoneNum == 0 - 1

\* The score_threshold / confidence_threshold field of a request body.
Omitted == [given |-> "omitted", value |-> 0]
Null == [given |-> "null", value |-> 0]
supplied(v) == [given |-> "value", value |-> v]
ThresholdFields == {Omitted, Null} \cup {supplied(v) : v \in {0, 5, 500}}

\* schemas/memory.py:26 and :42 -- Optional[float] with default 0.01.
parsed_threshold(field) ==
    CASE field.given = "omitted" -> 10
      [] field.given = "null" -> NoneNum
      [] OTHER -> field.value

\* memory.py:132 and :214 -- `request.score_threshold or 0.01`: None and
\* 0.0 are both falsy.
threshold_or_default(x) == IF x = NoneNum \/ x = 0 THEN 10 ELSE x

\* middleware/simple_auth.py:12-29 -- the user of a request, or the 401.
get_current_user(token) ==
    IF token \in Users
    THEN [status |-> 200, id |-> token]
    ELSE [status |-> 401, id |-> ""]

\* The handlers declared with Depends(get_current_user).
Guarded == {"create_memory", "search_memories", "chatbot_query",
            "get_user_videos", "get_video", "delete_video",
            "list_highlights", "get_recent_events", "get_daily_recap"}

\* memory.py:329-391 -- the handlers declared without it.
Unguarded == {"delete_memories", "get_collection_stats", "get_memory"}

\* What FastAPI does before the handler body runs.
depends(endpoint, token) ==
    IF endpoint \in Guarded
    THEN get_current_user(token)
    ELSE [status |-> 200, id |-> ""]

\* vector_store.search_memories (vector_store.py:107-177): the must-filter
\* on payload.user_id and the score threshold of the search call.
scored_search(pts, user_id, score, score_threshold) ==
    {[id |-> p.id, video_id |-> p.video_id, score |-> score[p.id]] :
        p \in {q \in pts : /\ q.user_id = user_id
                           /\ score[q.id] >= score_threshold}}

\* The scores of the stored points against the query of one request; a
\* request that does not get as far as the search has no use for them.
ScoreFunctions(searched) ==
    IF searched THEN [{p.id : p \in points} -> Scores]
    ELSE {[id \in {p.id : p \in points} |-> 500]}

\* A response; the fields a handler does not set keep these values.
response(endpoint, token, status, reads) ==
    [pc |-> "done", endpoint |-> endpoint, token |-> token,
     status |-> status, reads |-> reads,
     field |-> Omitted, score_threshold |-> 0, results |-> {},
     video_found |-> FALSE, ai_response |-> "", refined_query |-> "",
     processing_time_ms |-> 0]

\* memory.py:276
no_video_response == "I couldn't find any relevant videos to answer your question."

\* A handler that takes any search result for a match.
has_results_always(results) == TRUE

\* memory.py:220 -- `if results and len(results) > 0`
has_results(results) == results # {}

ApiUnchanged ==
    UNCHANGED <<queue, nextPath, popped, mgr, stopIdx, is_running, pc, cur,
                lastPop, processed_count, nextUuid, autoLog, s3Attempts,
                outcome, bg, faults, searchVars, files, stop_calls, seg,
                events, wait, capture, camera, highlights, calendar,
                   lateVars>>

\* POST /memory/search (memory.py:110-186).
memory_search(token, field, embed_ok) ==
    LET user == depends("search_memories", token) IN
    /\ api.pc = "idle"
    /\ user.status # 200 => (field = Omitted /\ embed_ok)
    /\ ~embed_ok => field = Omitted
    /\ \E score \in ScoreFunctions(user.status = 200 /\ embed_ok) :
          api' =
             IF user.status # 200
             THEN response("search_memories", token, user.status, {})
             ELSE IF ~embed_ok
             THEN response("search_memories", token, 500, {})
             ELSE LET th == threshold_or_default(parsed_threshold(field)) IN
                  [response("search_memories", token, 200,
                            {"vector", "relational"})
                     EXCEPT !.field = field,
                            !.score_threshold = th,
                            !.results = scored_search(points,
                                           search_user_filter(user.id),
                                           score, th)]
    /\ UNCHANGED <<points, rows>>
    /\ ApiUnchanged

\* POST /memory/chatbot (memory.py:189-287).
chatbot_query(token, field, refine_ok, embed_ok, elapsed) ==
    LET user == depends("chatbot_query", token) IN
    /\ api.pc = "idle"
    /\ user.status # 200 => (field = Omitted /\ embed_ok)
    /\ (user.status # 200 \/ ~embed_ok) =>
          (field = Omitted /\ refine_ok /\ elapsed = 1)
    /\ \E score \in ScoreFunctions(user.status = 200 /\ embed_ok) :
          api' =
             IF user.status # 200
             THEN response("chatbot_query", token, user.status, {})
             ELSE IF ~embed_ok
             THEN response("chatbot_query", token, 500, {})
             ELSE LET th == threshold_or_default(parsed_threshold(field))
                      results == scored_search(points, user.id, score, th)
                      contexts == {r \in results :
                                      get_video_analysis(r.video_id) # {}}
                  IN
                  [response("chatbot_query", token, 200,
                            IF has_results(results)
                            THEN {"vector", "relational"}
                            ELSE {"vector"})
                     EXCEPT !.field = field,
                            !.score_threshold = th,
                            !.results = results,
                            !.refined_query =
                                IF refine_ok THEN "refined_query"
                                             ELSE "user_input",
                            !.video_found = has_results(results),
                            !.ai_response =
                                IF ~has_results(results)
                                THEN no_video_response
                                ELSE IF contexts # {}
                                THEN "contextual_response"
                                ELSE "I found some relevant videos but couldn't access their detailed summaries.",
                            !.processing_time_ms = elapsed]
    /\ UNCHANGED <<points, rows>>
    /\ ApiUnchanged

\* DELETE /memory/delete (memory.py:329-346, vector_store.py:215-241).
delete_memories(token, memory_id) ==
    LET user == depends("delete_memories", token) IN
    /\ api.pc = "idle"
    /\ IF user.status # 200
       THEN /\ api' = response("delete_memories", token, user.status, {})
            /\ UNCHANGED points
       ELSE /\ api' = response("delete_memories", token, 200, {"vector"})
            /\ points' = {p \in points : p.id # memory_id}
    /\ UNCHANGED rows
    /\ ApiUnchanged

\* GET /memory/{memory_id} (memory.py:364-391, vector_store.py:179-213).
get_memory(token, memory_id) ==
    LET user == depends("get_memory", token) IN
    /\ api.pc = "idle"
    /\ api' = IF user.status # 200
              THEN response("get_memory", token, user.status, {})
              ELSE response("get_memory", token,
                            IF \E p \in points : p.id = memory_id
                            THEN 200 ELSE 404,
                            {"vector"})
    /\ UNCHANGED <<points, rows>>
    /\ ApiUnchanged

\* GET /memory/stats/collection (memory.py:349-361).
get_collection_stats(token) ==
    LET user == depends("get_collection_stats", token) IN
    /\ api.pc = "idle"
    /\ api' = IF user.status # 200
              THEN response("get_collection_stats", token, user.status, {})
              ELSE response("get_collection_stats", token, 200, {"vector"})
    /\ UNCHANGED <<points, rows>>
    /\ ApiUnchanged

\* GET /videos/, GET /videos/{video_id}, GET /highlights/list,
\* GET /insights/recent and GET /insights/summary: each reads the
\* relational store for the authenticated user.
RelationalReaders == {"get_user_videos", "get_video", "list_highlights",
                      "get_recent_events", "get_daily_recap"}

read_relational(endpoint, token) ==
    LET user == depends(endpoint, token) IN
    /\ api.pc = "idle"
    /\ api' = IF user.status # 200
              THEN response(endpoint, token, user.status, {})
              ELSE response(endpoint, token, 200, {"relational"})
    /\ UNCHANGED <<points, rows>>
    /\ ApiUnchanged

\* DELETE /videos/{video_id} (videos.py:62-104): the row is deleted when it
\* belongs to the authenticated user.
delete_video(token, video_id) ==
    LET user == depends("delete_video", token)
        own == {r \in rows : r.video_id = video_id /\ r.user_id = user.id}
    IN
    /\ api.pc = "idle"
    /\ IF user.status # 200
       THEN /\ api' = response("delete_video", token, user.status, {})
            /\ UNCHANGED rows
       ELSE IF own = {}
       THEN /\ api' = response("delete_video", token, 404, {"relational"})
            /\ UNCHANGED rows
       ELSE /\ api' = response("delete_video", token, 200, {"relational"})
            /\ rows' = rows \ own
    /\ UNCHANGED points
    /\ ApiUnchanged

\* The response has been sent; the server waits for the next request.
send_response ==
    /\ api.pc = "done"
    /\ api' = NoApi
    /\ UNCHANGED <<points, rows>>
    /\ ApiUnchanged

\* Segments stored while the API is exercised.
MaxApiPoints == 2

\* A segment went through a worker and its row and point are stored.
api_segment_stored(job_user) ==
    /\ nextUuid <= MaxApiPoints
    /\ segment_stored(job_user, "text")

ApiNext ==
    \/ \E u \in Users : api_segment_stored(u)
    \/ \E t \in Tokens, f \in ThresholdFields, e \in BOOLEAN :
          memory_search(t, f, e)
    \/ \E t \in Tokens, f \in ThresholdFields, r, e \in BOOLEAN,
          ms \in Elapsed : chatbot_query(t, f, r, e, ms)
    \/ \E t \in Tokens, n \in 1 .. MaxApiPoints :
          delete_memories(t, generate_linking_uuid(n))
    \/ \E t \in Tokens, n \in 1 .. MaxApiPoints :
          get_memory(t, generate_linking_uuid(n))
    \/ \E t \in Tokens : get_collection_stats(t)
    \/ \E t \in Tokens, e \in RelationalReaders : read_relational(e, t)
    \/ \E t \in Tokens, n \in 1 .. MaxApiPoints :
          delete_video(t, generate_linking_uuid(n))
    \/ send_response

ApiSpec == Init /\ [][ApiNext]_vars

(* ----------------------- system management endpoints -------------------- *)

\* VideoLifecycleManager objects created by /start in one run.
MaxManagers == 3

Managers == 1 .. MaxManagers

\* system.py:24 -- _running_systems is empty; no manager exists.
SystemsCreated ==
    [pc |-> "serving",
     running_systems |-> [u \in Users |-> 0],
     managers |-> [m \in Managers |-> [state |-> "none", user |-> ""]],
     last |-> [op |-> "none", user |-> "", status |-> "none"]]

\* `user_id in _running_systems`
registered(user) == system.running_systems[user] # 0

\* The managers of a user whose start_both_systems is in progress, and those
\* whose background task has been added and has not run yet.
running_for(user) ==
    {m \in Managers : system.managers[m].user = user
                      /\ system.managers[m].state = "running"}
pending_for(user) ==
    {m \in Managers : system.managers[m].user = user
                      /\ system.managers[m].state = "pending"}

\* system.py:27-95 -- POST /start: the already-running reply when the user
\* has an entry; otherwise a manager is created and run_system is added to
\* the background tasks, which run after the response.
start_video_system(user) ==
    /\ system.pc = "serving"
    /\ IF registered(user)
       THEN system' = [system EXCEPT
                !.last = [op |-> "start", user |-> user,
                          status |-> "already_running"]]
       ELSE \E m \in Managers :
              /\ system.managers[m].state = "none"
              /\ \A k \in Managers :
                     system.managers[k].state = "none" => m <= k
              /\ system' = [system EXCEPT
                    !.managers[m] = [state |-> "pending", user |-> user],
                    !.last = [op |-> "start", user |-> user,
                              status |-> "starting"]]
    /\ UNCHANGED <<pipeVars, points, searchVars, stop_calls, seg, events,
                   wait, capture, sideVars, controller, waiter, lifecycle>>

\* system.py:61-68 -- run_system: the entry of the user is assigned and
\* start_both_systems is awaited.
run_system(m) ==
    /\ system.pc = "serving"
    /\ system.managers[m].state = "pending"
    /\ system' = [system EXCEPT
          !.running_systems[system.managers[m].user] = m,
          !.managers[m].state = "running"]
    /\ UNCHANGED <<pipeVars, points, searchVars, stop_calls, seg, events,
                   wait, capture, sideVars, controller, waiter, lifecycle>>

\* system.py:68 -- start_both_systems returned; the entry is left in place.
run_system_returns(m) ==
    /\ system.pc = "serving"
    /\ system.managers[m].state = "running"
    /\ system' = [system EXCEPT !.managers[m].state = "ended"]
    /\ UNCHANGED <<pipeVars, points, searchVars, stop_calls, seg, events,
                   wait, capture, sideVars, controller, waiter, lifecycle>>

\* system.py:69-72 -- start_both_systems raised; the entry of the user is
\* popped, whichever manager it names.
run_system_raises(m) ==
    /\ system.pc = "serving"
    /\ system.managers[m].state = "running"
    /\ system' = [system EXCEPT
          !.managers[m].state = "ended",
          !.running_systems[system.managers[m].user] = 0]
    /\ UNCHANGED <<pipeVars, points, searchVars, stop_calls, seg, events,
                   wait, capture, sideVars, controller, waiter, lifecycle>>

\* system.py:139-157 and :175-194 -- the entry is popped and nothing is
\* done with the manager in it.
pop_running_system(user, op, status) ==
    /\ system' = [system EXCEPT
          !.running_systems[user] = 0,
          !.last = [op |-> op, user |-> user,
                    status |-> IF registered(user) THEN status
                               ELSE "not_running"]]
    /\ UNCHANGED <<pipeVars, points, searchVars, stop_calls, seg, events,
                   wait, capture, sideVars, controller, waiter, lifecycle>>

\* system.py:133-163 -- POST /stop
stop_video_system(user) ==
    /\ system.pc = "serving"
    /\ pop_running_system(user, "stop", "stopped")

\* system.py:166-200 -- POST /end
end_video_system(user) ==
    /\ system.pc = "serving"
    /\ pop_running_system(user, "end", "ended")

SystemNext ==
    \/ \E u \in Users : start_video_system(u)
    \/ \E m \in Managers : run_system(m)
    \/ \E m \in Managers : run_system_returns(m)
    \/ \E m \in Managers : run_system_raises(m)
    \/ \E u \in Users : stop_video_system(u)
    \/ \E u \in Users : end_video_system(u)

SystemInit ==
    /\ Started
    /\ faults = MaxFaults
    /\ stop_calls = 0
    /\ seg = NoSeg
    /\ events = <<>>
    /\ wait = NoWait
    /\ capture = NoCapture
    /\ camera = NoCamera
    /\ api = NoApi
    /\ highlights = NoHighlights
    /\ calendar = NoCalendar
    /\ controller = NoController
    /\ waiter = NoWaiter
    /\ lifecycle = NoLifecycle
    /\ system = SystemsCreated

SystemSpec == SystemInit /\ [][SystemNext]_vars

(* --------------------------- highlights sink ---------------------------- *)

\* Rows the highlights table takes in one run.
MaxHighlights == 3

\* The "user_id" entry of the metadata dictionary: missing, or a string
\* (possibly empty).
MetadataUserIds ==
    {[present |-> FALSE, value |-> ""]} \cup
    {[present |-> TRUE, value |-> v] : v \in Users \cup {""}}

\* A sink that takes whatever the metadata holds.
no_user_id_never(user_id) == FALSE

\* highlights_integration.py:45-47 -- metadata.get("user_id") and
\* `if not user_id`: None and the empty string are both falsy.
no_user_id(user_id) == ~user_id.present \/ user_id.value = ""

\* highlights_integration.py:57-61
highlight_data(video_id, user_id) ==
    [video_id |-> video_id, user_id |-> user_id.value, created_at |-> "now"]

\* highlights_integration.py:21-88.  `db` is what the insert call does:
\* it returns the stored row, returns no data, or raises.
add_to_highlights(video_id, user_id, db) ==
    /\ Cardinality(highlights.table) < MaxHighlights
    /\ no_user_id(user_id) => db = "ok"
    /\ LET call == [video_id |-> video_id, user_id |-> user_id, db |-> db]
           id == Cardinality(highlights.table) + 1
           row == [highlight_id |-> id,
                   data |-> highlight_data(video_id, user_id)]
       IN
       IF no_user_id(user_id)
       THEN highlights' =
               [pc |-> "returned", table |-> highlights.table, call |-> call,
                triggered |-> FALSE, reason |-> "No user_id provided"]
       ELSE IF db = "ok"
       THEN highlights' =
               [pc |-> "returned", table |-> highlights.table \cup {row},
                call |-> call, triggered |-> TRUE, reason |-> ""]
       ELSE highlights' =
               [pc |-> "returned", table |-> highlights.table, call |-> call,
                triggered |-> FALSE,
                reason |-> IF db = "empty" THEN "Database insertion failed"
                                           ELSE "str(e)"]
    /\ UNCHANGED <<pipeVars, points, searchVars, stop_calls, seg, events,
                   wait, capture, camera, api, calendar,
                   lateVars>>

HighlightsNext ==
    \E n \in 1 .. MaxHighlights, u \in MetadataUserIds,
       db \in {"ok", "empty", "raise"} :
       add_to_highlights(generate_linking_uuid(n), u, db)

HighlightsSpec == Init /\ [][HighlightsNext]_vars

(* --------------------- calendar date and time parser -------------------- *)

\* A date is a year and a day counted from a Monday of that year; the
\* current year is 0.
WeekdayNames == <<"monday", "tuesday", "wednesday", "thursday", "friday",
                  "saturday", "sunday">>

\* datetime.weekday(): Monday is 0.
weekday(date) == date.day % 7

\* The days "today" can be: one of each weekday.
Todays == {[year |-> 0, day |-> d] : d \in 0 .. 6}

\* The keywords _parse_event_datetime looks for in date_str, and the date
\* strings fed to it: None, a string holding one or two of the keywords, a
\* string holding none, and ISO dates.
RelativeKeywords == {"today", "tomorrow", "next week", "next month"}
WeekdayKeywords == {WeekdayNames[i] : i \in 1 .. 7}
NoDate == [kind |-> "none", contains |-> {}, year |-> 0, day |-> 0]
DateStrings ==
    {NoDate}
    \cup {[kind |-> "text", contains |-> {k}, year |-> 0, day |-> 0] :
             k \in RelativeKeywords \cup WeekdayKeywords}
    \cup {[kind |-> "text", contains |-> {"next week", k},
           year |-> 0, day |-> 0] : k \in {"monday", "friday"}}
    \cup {[kind |-> "text", contains |-> {}, year |-> 0, day |-> 0]}
    \cup {[kind |-> "iso", contains |-> {}, year |-> y, day |-> 3] :
             y \in {0 - 1, 0, 1}}

\* The time strings: None, a string holding one of the four words, a clock
\* time `H`, `H:M`, with or without am/pm, and a string with no digit and
\* none of the words.  minute = -1 stands for no minute digits.
NoTime == [kind |-> "none", word |-> "", hour |-> 0, minute |-> 0 - 1,
           ampm |-> ""]
TimeWords == {"morning", "afternoon", "evening", "night"}
ClockHours == {0, 1, 9, 11, 12, 13, 23}
ClockMinutes == {0 - 1, 0, 30}
TimeStrings ==
    {NoTime}
    \cup {[kind |-> "word", word |-> w, hour |-> 0, minute |-> 0 - 1,
           ampm |-> ""] : w \in TimeWords}
    \cup {[kind |-> "clock", word |-> "", hour |-> h, minute |-> m,
           ampm |-> a] :
             h \in ClockHours, m \in ClockMinutes, a \in {"", "am", "pm"}}
    \cup {[kind |-> "text", word |-> "", hour |-> 0, minute |-> 0 - 1,
           ampm |-> ""]}

plus_days(date, n) == [date EXCEPT !.day = @ + n]

\* A parser that takes today for the named weekday when today is that day.
days_ahead_same_day(target, base_date) ==
    LET d == target - weekday(base_date) IN IF d < 0 THEN d + 7 ELSE d

\* calendar_integration.py:259-261 (and the six branches after it)
days_ahead(target, base_date) ==
    LET d == target - weekday(base_date) IN IF d <= 0 THEN d + 7 ELSE d

\* calendar_integration.py:245-302 -- the date part: the first keyword of
\* the chain that occurs in the string decides.
parse_date(date_str, base_date) ==
    LET has(k) == k \in date_str.contains
        named == {i \in 1 .. 7 : has(WeekdayNames[i])}
    IN
    IF date_str.kind = "none" THEN base_date
    ELSE IF date_str.kind = "iso"
    THEN [year |-> IF date_str.year < base_date.year THEN base_date.year
                   ELSE date_str.year,
          day |-> date_str.day]
    ELSE IF has("today") THEN base_date
    ELSE IF has("tomorrow") THEN plus_days(base_date, 1)
    ELSE IF has("next week") THEN plus_days(base_date, 7)
    ELSE IF has("next month") THEN plus_days(base_date, 30)
    ELSE IF named # {}
    THEN LET first == CHOOSE i \in named : \A j \in named : i <= j
         IN plus_days(base_date, days_ahead(first - 1, base_date))
    ELSE base_date

\* calendar_integration.py:319-331 -- the hour after the am/pm conversion.
hour_24(hour, ampm) ==
    IF ampm = "pm" /\ hour # 12 THEN hour + 12
    ELSE IF ampm = "am" /\ hour = 12 THEN 0
    ELSE hour

\* calendar_integration.py:305-342 -- the time part.  The result is the
\* clock time of the returned datetime and the local target_time; a clock
\* time that datetime.replace refuses makes the function return None.
parse_time(time_str) ==
    LET described ==
            CASE time_str.word = "morning" -> 9
              [] time_str.word = "afternoon" -> 14
              [] time_str.word = "evening" -> 18
              [] OTHER -> 20
        h == hour_24(time_str.hour, time_str.ampm)
        m == IF time_str.minute = 0 - 1 THEN 0 ELSE time_str.minute
    IN
    IF time_str.kind = "none"
    THEN [raised |-> FALSE, hour |-> 0, minute |-> 0, target_time |-> 0 - 1]
    ELSE IF time_str.kind = "word"
    THEN [raised |-> FALSE, hour |-> 0, minute |-> 0,
          target_time |-> described]
    ELSE IF time_str.kind = "clock"
    THEN IF h > 23 \/ m > 59
         THEN [raised |-> TRUE, hour |-> 0, minute |-> 0, target_time |-> h]
         ELSE [raised |-> FALSE, hour |-> h, minute |-> m, target_time |-> h]
    ELSE [raised |-> FALSE, hour |-> 10, minute |-> 0, target_time |-> 0 - 1]

NoneDatetime == [none |-> TRUE, year |-> 0, day |-> 0, hour |-> 0,
                 minute |-> 0]

\* calendar_integration.py:226-348
parse_event_datetime(date_str, time_str, today) ==
    LET target_date == parse_date(date_str, today)
        t == parse_time(time_str)
    IN
    IF t.raised THEN NoneDatetime
    ELSE [none |-> FALSE, year |-> target_date.year,
          day |-> target_date.day, hour |-> t.hour, minute |-> t.minute]

\* The extractor is called on the date and time strings of one event.
parse_event_datetime_call ==
    /\ calendar.pc = "idle"
    /\ \E today \in Todays, date_str \in DateStrings,
          time_str \in TimeStrings :
          calendar' = [pc |-> "returned", today |-> today,
                       date_str |-> date_str, time_str |-> time_str,
                       result |-> parse_event_datetime(date_str, time_str,
                                                       today)]
    /\ UNCHANGED <<pipeVars, points, searchVars, stop_calls, seg, events,
                   wait, capture, camera, api, highlights,
                   lateVars>>

\* The next event is taken up.
parse_event_datetime_next ==
    /\ calendar.pc = "returned"
    /\ calendar' = NoCalendar
    /\ UNCHANGED <<pipeVars, points, searchVars, stop_calls, seg, events,
                   wait, capture, camera, api, highlights,
                   lateVars>>

CalendarNext ==
    \/ parse_event_datetime_call
    \/ parse_event_datetime_next

CalendarSpec == Init /\ [][CalendarNext]_vars

(* ============================ properties ================================ *)

Pushed == 1 .. (nextPath - 1)
Minted == {outcome[p].uuid : p \in Paths} \ {NoneId}
IngestIds == {twelvelabs_video_id(p) : p \in Paths}
RowsOf(p) == {r \in rows : r.video_id = outcome[p].uuid}
PointsOf(p) == {pt \in points : pt.id = outcome[p].uuid}
AutoOf(p) == {a \in autoLog : a.video_id = outcome[p].uuid}
TasksOf(p) == {t \in bg : t.linking_uuid = outcome[p].uuid}
ReachedFanOut(p) == outcome[p].summary # "none"

\* C1: for every job that reaches the fan-out, the UUID the worker minted
\* for it is the key of whatever the job wrote: the relational row's
\* video_id, the vector point's id and payload.video_id, and the video_id the
\* automation controller reports; every key in the three stores is such a
\* minted UUID, and none is the ingest API's video id.
C1_SameUuidEverywhere ==
    /\ \A p \in Paths :
          ReachedFanOut(p) =>
             /\ outcome[p].uuid # NoneId
             /\ outcome[p].uuid # twelvelabs_video_id(p)
             /\ outcome[p].insert = "ok" => RowsOf(p) # {}
    /\ \A r \in rows : r.video_id \in Minted /\ r.video_id \notin IngestIds
    /\ \A pt \in points :
          /\ pt.id \in Minted
          /\ pt.video_id = pt.id
          /\ pt.id \notin IngestIds
    /\ \A a \in autoLog : a.video_id \in Minted /\ a.video_id \notin IngestIds
    /\ Cardinality(rows) =
          Cardinality({p \in Paths : outcome[p].insert = "ok"})

C1_Witness ==
    \E p \in Paths :
       /\ RowsOf(p) # {}
       /\ PointsOf(p) # {}
       /\ AutoOf(p) # {}

\* C2: every vector point written for a job carries in payload.user_id the
\* user_id of the relational row with the same video_id.
C2_PointUserIsRowUser ==
    \A pt \in points : \A r \in rows :
       r.video_id = pt.video_id => pt.user_id = r.user_id

\* C3: /memory/search returns only results whose payload.user_id is the
\* authenticated caller's user id.
C3_SearchOnlyOwnPoints ==
    \A res \in searchResults : res.payload_user_id = searchCaller

\* C4: a job that was popped and is not yet acknowledged is not lost when
\* its worker is cancelled: every popped job is still held by a worker, back
\* in the queue, or has been returned as committed or failed.
C4_PoppedJobNotLost ==
    \A i \in 1 .. Len(popped) :
       LET p == popped[i] IN
       \/ \E w \in Workers : cur[w].path = p
       \/ \E k \in 1 .. Len(queue) : queue[k].video_path = p
       \/ outcome[p].result # "none"

\* C5 (state part): jobs are handed out in the order they were pushed, and
\* what is still queued is the rest of that order, oldest at the right.
FifoOrder ==
    /\ \A i \in 1 .. Len(popped) : popped[i] = i
    /\ Len(popped) + Len(queue) = nextPath - 1
    /\ \A k \in 1 .. Len(queue) : queue[k].video_path = nextPath - k

\* C5 (step part): a pop of a non-empty queue that returns None is one in
\* which the broker call raised.
PopOfNonEmptyReturnsJob ==
    \A w \in Workers :
       (pc[w] = "loop" /\ pc'[w] = "sleep" /\ queue # <<>>)
          => lastPop'[w] = "error"

C6_DeliveredOnce ==
    /\ \A i, j \in 1 .. Len(popped) : popped[i] = popped[j] => i = j
    /\ \A w1, w2 \in Workers :
          (w1 # w2 /\ cur[w1].path # 0) => cur[w1].path # cur[w2].path
    /\ \A w \in Workers :
          cur[w].path # 0 =>
             /\ \E i \in 1 .. Len(popped) : popped[i] = cur[w].path
             /\ \A k \in 1 .. Len(queue) :
                   queue[k].video_path # cur[w].path
    /\ nextUuid - 1 <= Len(popped)
    /\ \A p \in Paths : Cardinality(RowsOf(p)) <= 1
    /\ Cardinality(rows) <= Len(popped)

C6_Witness ==
    /\ \A w \in Workers : cur[w].path # 0
    /\ rows = {}
    /\ Len(popped) = NumWorkers

\* C7 (state part): a job whose ingest task failed has no row, no point, no
\* automation dispatch, no background task, and is not counted.
IngestFailureLeavesNothing ==
    \A p \in Paths :
       outcome[p].ingest \in {"failed", "error"} =>
          /\ RowsOf(p) = {}
          /\ PointsOf(p) = {}
          /\ AutoOf(p) = {}
          /\ TasksOf(p) = {}
          /\ outcome[p].result = "error"
          /\ ~outcome[p].counted

\* C7 (step part): the step in which the ingest failure is seen leaves
\* processed_count alone and puts the worker back at the head of its loop.
IngestFailureGoesOn ==
    \A w \in Workers :
       (pc[w] = "phase1"
           /\ outcome'[cur[w].path].ingest \in {"failed", "error"})
          => /\ processed_count' = processed_count
             /\ pc'[w] = "loop"
             /\ is_running'[w] = is_running[w]

\* C7: when the ingest task reports failed or error the job produces no
\* row, no point and no automation dispatch, processed_count is not
\* incremented, and the worker goes on to the next job.
C7_IngestFailure ==
    []IngestFailureLeavesNothing /\ [][IngestFailureGoesOn]_vars

C7_Witness ==
    \E p, q \in Paths :
       /\ outcome[p].ingest \in {"failed", "error"}
       /\ p < q
       /\ outcome[q].insert = "ok"

\* C8: a failed blob upload does not end the job: the upload is attempted
\* once per job, the job is not returned as an error because of it, the row
\* it commits has s3_link null, and its vector point can still be written.
C8_BlobFailureNonFatal ==
    /\ \A p \in Paths : s3Attempts[p] <= 1
    /\ \A p \in Paths :
          outcome[p].blob = "failed" =>
             /\ s3Attempts[p] = 1
             /\ outcome[p].ingest = "ready" => outcome[p].result # "error"
             /\ outcome[p].insert = "ok" => RowsOf(p) # {}
             /\ \A r \in RowsOf(p) : r.s3_link = NoneId
    /\ \A p \in Paths :
          outcome[p].blob = "ok" =>
             \A r \in RowsOf(p) : r.s3_link = s3_url_of(p)

C8_Witness ==
    \E p \in Paths :
       /\ outcome[p].blob = "failed"
       /\ \E r \in RowsOf(p) : r.s3_link = NoneId
       /\ PointsOf(p) # {}

\* C9: a job whose summary failed on all its retries is abandoned: no row
\* is inserted for it, no automation is dispatched, and it is not counted
\* as processed.
C9_SummaryFailureFatal ==
    \A p \in Paths :
       outcome[p].summary = "failed" =>
          /\ RowsOf(p) = {}
          /\ AutoOf(p) = {}
          /\ \A t \in TasksOf(p) : t.kind # "automation"
          /\ ~outcome[p].counted

\* C10: a worker counts a job as processed if and only if the relational
\* insert for that job succeeded.
C10_CountedIffInserted ==
    \A p \in Paths : outcome[p].counted <=> outcome[p].insert = "ok"

(* --------------------------- C11 .. C20 --------------------------------- *)

Before(e1, i) == \E j \in 1 .. (i - 1) : events[j] = e1

\* C11: within one job the UUID is minted before any external call; the
\* ingest, blob and embedding-task launches start before the wait-for-ready
\* (its first poll); the summary call is issued only after the ingest task
\* reported ready; the relational insert is issued only after the summary
\* call returned.
C11_PhaseOrder ==
    /\ events # <<>> => events[1] = "uuid"
    /\ \A i \in 1 .. Len(events) :
          /\ events[i] \in PollEvents =>
                /\ Before("ingest_launch", i)
                /\ Before("blob_launch", i)
                /\ Before("embed_launch", i)
          /\ events[i] = "summary_call" => Before("ingest_ready", i)
          /\ events[i] = "insert_call" => Before("summary_returned", i)

\* C12 (state part): no worker has left its loop and none has been stopped.
WorkersAlive ==
    \A w \in Workers :
       /\ is_running[w]
       /\ pc[w] \in {"loop", "sleep", "phase1", "analyze", "insert"}

\* C12 (step part): a step in which a job ends puts its worker back at the
\* head of the loop; a broker error on pop leads to the 1 s sleep; a step of
\* a background task leaves every worker where it is.
FailureStaysLocal ==
    /\ \A w \in Workers :
          /\ (cur[w].path # 0 /\ cur'[w].path = 0) => pc'[w] = "loop"
          /\ (pc[w] = "loop" /\ lastPop'[w] = "error" /\ lastPop[w] # "error")
                => pc'[w] = "sleep"
    /\ ~(bg \subseteq bg') =>
          UNCHANGED <<pc, cur, is_running, processed_count, queue>>

\* C12: a worker never dies of a routine job failure: after any failure of
\* an external call in the main path, in a background embedding or
\* automation task, or of the broker on pop, the worker loop is still
\* running and goes on to the next pop, and a background task's failure
\* never reaches the worker loop.
C12_WorkerNeverDies == []WorkersAlive /\ [][FailureStaysLocal]_vars

C12_Witness ==
    \E p, q \in Paths :
       /\ p # q
       /\ outcome[p].result = "error"
       /\ \E w \in Workers : cur[w].path = q
       /\ \A w \in Workers : is_running[w]

\* C13 (step part): a job pushed by the capture loop names a file that is
\* on disk when it is pushed, and a pop that finds the file missing leaves
\* the worker running at the head of its loop.
EnqueuedFileExists ==
    /\ Len(queue') > Len(queue) => queue'[1].video_path \in files'
    /\ \A w \in Workers :
          (pc[w] = "loop" /\ Len(popped') > Len(popped)
              /\ Last(popped') \notin files)
             => pc'[w] = "loop" /\ is_running'[w]

\* C13 (state part): a popped job whose file was missing has the structured
\* error as its result, and nothing was called for it: no UUID was minted,
\* no ingest, blob upload, summary or insert was attempted.
MissingFileIsError ==
    \A i \in 1 .. Len(popped) :
       LET p == popped[i] IN
       p \notin files =>
          /\ outcome[p].result = "error"
          /\ outcome[p].file = "missing"
          /\ outcome[p].uuid = NoneId
          /\ outcome[p].ingest = "none"
          /\ outcome[p].blob = "none"
          /\ s3Attempts[p] = 0
          /\ outcome[p].summary = "none"
          /\ outcome[p].insert = "none"
          /\ ~outcome[p].counted
          /\ \A w \in Workers : cur[w].path # p

\* C13: every job pushed by the capture loop names a file that exists at
\* enqueue time, and a worker that pops a job whose file is missing returns
\* a structured error result, issues no external call for it, and keeps
\* running.
C13_MissingFile == []MissingFileIsError /\ [][EnqueuedFileExists]_vars

C13_Witness ==
    \E p, q \in Paths :
       /\ p # q
       /\ p \notin files
       /\ outcome[p].result = "error"
       /\ \E w \in Workers : cur[w].path = q /\ pc[w] = "phase1"

\* C20: padding invariant: for every non-empty window whose captured frame
\* count is below fps x segment_duration, the emitted container has exactly
\* fps x segment_duration frames, and the metadata frame_count and
\* duration_seconds = frame_count / fps describe the frames actually
\* written.
C20_PaddingInvariant ==
    (capture.pc = "built" /\ capture.segment.info # NoneInfo
        /\ capture.frames < expected_frames) =>
       /\ capture.segment.container_frames = expected_frames
       /\ capture.segment.info.frame_count = capture.segment.container_frames
       /\ capture.segment.info.duration_seconds_x_fps
             = capture.segment.info.frame_count

C15_VectorRetried ==
    \A p \in Paths :
       (/\ outcome[p].insert = "ok"
        /\ outcome[p].vec_attempts >= 1
        /\ PointsOf(p) = {}
        /\ \A t \in TasksOf(p) : t.kind = "automation")
          => /\ outcome[p].vec_attempts = embed_max_retries
             /\ outcome[p].vec_slept = Pow2(0) + Pow2(1)

\* C16: vector upsert is idempotent by id: re-running the embedding
\* finalization for a video_id that already has a point leaves exactly one
\* point with that id, the one written last, so there are never more
\* points than distinct ids finalized.
C16_UpsertIdempotent ==
    /\ \A p1, p2 \in points : p1.id = p2.id => p1 = p2
    /\ Cardinality(points) <= nextUuid - 1
    /\ \A r \in rows : Cardinality({pt \in points : pt.id = r.video_id}) = 1

C16_Witness ==
    \E pt \in points :
       /\ pt.vector = "embeddings_float_again"
       /\ \E r \in rows : r.video_id = pt.id
       /\ Cardinality(points) >= 2

\* C17: once a job is over and its background tasks are done -- its
\* fan-out succeeded, or it was abandoned -- the worker has deleted or
\* released the segment file it consumed: the file is no longer on disk.
C17_FileReleased ==
    \A p \in Paths :
       (outcome[p].result # "none" /\ TasksOf(p) = {}) => p \notin files

AllStopped ==
    \A w \in Workers :
       ~is_running[w] /\ pc[w] \in {"returned", "cancelled"}

SecondStopIsNoOp ==
    (stop_calls' > stop_calls /\ mgr # "running") =>
       UNCHANGED <<queue, nextPath, popped, mgr, stopIdx, is_running, pc, cur,
                   lastPop, processed_count, nextUuid, rows, points, autoLog,
                   s3Attempts, outcome, bg, faults, files>>

C19_InFlightJobFinishes ==
    \A w \in Workers :
       pc[w] \in {"returned", "cancelled"} =>
          \A i \in 1 .. Len(popped) :
             LET p == popped[i] IN
             (\A v \in Workers : cur[v].path # p) =>
                /\ ~outcome[p].lost
                /\ outcome[p].insert # "none" \/ outcome[p].result = "error"

(* --------------------------- C21 .. C30 --------------------------------- *)

\* C21 (step part): the camera thread's next queue operation can always be
\* taken, and the step that ends the handling of a full buffer has lost the
\* oldest buffered frame and leaves the newly captured frame at the tail.
DropOldestStep ==
    /\ (camera.pc = "full" /\ camera'.lost # camera.lost
           /\ camera.queue # <<>>) =>
          Last(camera'.lost) = Head(camera.queue)
    /\ (camera.pc \in {"full", "put_again"} /\ camera'.pc = "read") =>
          /\ camera'.queue # <<>>
          /\ Last(camera'.queue) = camera.frame
          /\ Last(camera'.lost) # camera.frame

\* C21: the frame buffer has drop-oldest semantics under every
\* interleaving of the camera thread and the window assembler: its length
\* never exceeds its capacity, the producer never blocks, and whenever the
\* producer finds the buffer full the frame that is lost is the oldest
\* buffered one while the newly captured frame is enqueued.
C21_DropOldest ==
    /\ [](Len(camera.queue) <= FrameQueueSize)
    /\ [](camera.pc = "put_again" => ~queue_full(camera.queue))
    /\ [][DropOldestStep]_vars

\* C22 (step): a request without a valid token is answered 401 and its
\* handler touches neither store.
UnauthenticatedRejected ==
    (/\ api.pc = "idle"
     /\ api'.pc = "done"
     /\ api'.token \notin Users
     /\ api'.endpoint \in Guarded \cup Unguarded) =>
       /\ api'.status = 401
       /\ api'.reads = {}
       /\ UNCHANGED <<points, rows>>

\* C22: every non-auth endpoint requires a valid bearer token: a request
\* without one to any video, memory (including delete, get-by-id and
\* collection stats), highlights or insights endpoint is rejected with 401
\* and reads or changes nothing in the vector or relational store.
C22_BearerRequired == [][UnauthenticatedRejected]_vars

C24_EffectiveThreshold ==
    (/\ api.pc = "done"
     /\ api.endpoint \in {"search_memories", "chatbot_query"}
     /\ api.status = 200) =>
       /\ api.field.given = "value" => api.score_threshold = api.field.value
       /\ api.field.given = "omitted" => api.score_threshold = 10
       /\ \A r \in api.results : r.score >= api.score_threshold

\* C25 (step): what one call of the sink does to the table and returns.
SinkStep ==
    highlights' # highlights =>
       LET call == highlights'.call
           added == highlights'.table \ highlights.table
       IN
       /\ highlights.table \subseteq highlights'.table
       /\ (~call.user_id.present \/ call.user_id.value = "") =>
             /\ added = {}
             /\ highlights'.triggered = FALSE
             /\ highlights'.reason = "No user_id provided"
       /\ (call.user_id.present /\ call.user_id.value # "") =>
             /\ Cardinality(added) = IF call.db = "ok" THEN 1 ELSE 0
             /\ highlights'.triggered = (call.db = "ok")
             /\ \A row \in added :
                   row.data = [video_id |-> call.video_id,
                               user_id |-> call.user_id.value,
                               created_at |-> "now"]

\* C25: when metadata carries no user_id, the highlights sink inserts no
\* row and returns a result with triggered=false and reason "No user_id
\* provided"; when user_id is present it inserts exactly one row
\* {video_id, user_id, created_at} with the video_id and user_id it was
\* given (the row is there when the database took the insert).
C25_HighlightsSink == [][SinkStep]_vars

C25_Witness ==
    /\ highlights.pc = "returned"
    /\ highlights.reason = "No user_id provided"
    /\ ~highlights.call.user_id.present
    /\ \E row \in highlights.table : row.data.user_id = CaptureUser

\* The time strings the extractor accepts: none, one of the four words, a
\* 12-hour time with am/pm, a 24-hour HH:MM, or a text without an hour.
AcceptedTime(time_str) ==
    \/ time_str.kind \in {"none", "word", "text"}
    \/ /\ time_str.kind = "clock"
       /\ time_str.ampm \in {"am", "pm"}
       /\ time_str.hour \in 1 .. 12
    \/ /\ time_str.kind = "clock"
       /\ time_str.ampm = ""
       /\ time_str.minute # 0 - 1
       /\ time_str.hour \in 0 .. 23

\* C26: for every current weekday and every named weekday, the calendar
\* extractor resolves the name to the first date strictly after today that
\* falls on that weekday: between 1 and 7 days ahead, and exactly 7 days
\* ahead when today is that weekday.
C26_NextWeekday ==
    \A i \in 1 .. 7 :
       (/\ calendar.pc = "returned"
        /\ calendar.date_str.contains = {WeekdayNames[i]}
        /\ AcceptedTime(calendar.time_str)) =>
          LET ahead == calendar.result.day - calendar.today.day IN
          /\ ~calendar.result.none
          /\ calendar.result.year = calendar.today.year
          /\ ahead \in 1 .. 7
          /\ weekday(calendar.result) = i - 1
          /\ weekday(calendar.today) = i - 1 => ahead = 7
          /\ \A k \in 1 .. (ahead - 1) :
                weekday(plus_days(calendar.today, k)) # i - 1

C26_Witness ==
    /\ calendar.pc = "returned"
    /\ calendar.date_str.contains = {"wednesday"}
    /\ weekday(calendar.today) = 2
    /\ calendar.result.day = calendar.today.day + 7
    /\ calendar.time_str.kind = "clock"

\* C27: for every accepted time token the parsed start time carries the
\* stated clock time: morning gives 09:00, afternoon 14:00, evening 18:00,
\* night 20:00, 'H[:M] am|pm' gives the 12-hour conversion (12 am is 00:00,
\* 12 pm is 12:00), 'HH:MM' gives that time; a time string from which no
\* hour is parsed gives 10:00.
C27_ClockTime ==
    (calendar.pc = "returned" /\ AcceptedTime(calendar.time_str)
        /\ calendar.time_str.kind # "none") =>
       LET t == calendar.time_str
           r == calendar.result
           clock == <<r.hour, r.minute>>
           m == IF t.minute = 0 - 1 THEN 0 ELSE t.minute
       IN
       /\ ~r.none
       /\ t.word = "morning" => clock = <<9, 0>>
       /\ t.word = "afternoon" => clock = <<14, 0>>
       /\ t.word = "evening" => clock = <<18, 0>>
       /\ t.word = "night" => clock = <<20, 0>>
       /\ (t.kind = "clock" /\ t.ampm = "am") =>
             clock = <<IF t.hour = 12 THEN 0 ELSE t.hour, m>>
       /\ (t.kind = "clock" /\ t.ampm = "pm") =>
             clock = <<IF t.hour = 12 THEN 12 ELSE t.hour + 12, m>>
       /\ (t.kind = "clock" /\ t.ampm = "") => clock = <<t.hour, m>>
       /\ t.kind = "text" => clock = <<10, 0>>

\* An embedding call of job p did not succeed: the embedding task could
\* not be created (the fallback task stands for it), or an attempt
\* raised.
EmbeddingCallFailed(p) ==
    \/ \E t \in TasksOf(p) : t.kind = "fallback"
    \/ outcome[p].vec_failed

\* C28: absence of a vector point for a committed relational row is
\* transient: for every job whose relational insert succeeded, provided
\* the embedding task creation, wait, retrieval and upsert calls succeed, a
\* vector point with id equal to the row's video_id eventually exists, even
\* if the worker has already started its next job.
C28_PointEventually ==
    \A p \in Paths :
       (outcome[p].insert = "ok")
          ~> (\/ \E pt \in points, r \in rows :
                    r.video_id = outcome[p].uuid /\ pt.id = r.video_id
              \/ EmbeddingCallFailed(p))

C28_Witness ==
    \E p, q \in Paths :
       /\ p # q
       /\ outcome[p].insert = "ok"
       /\ PointsOf(p) = {}
       /\ \E t \in TasksOf(p) : t.kind = "embedding"
       /\ \E w \in Workers : cur[w].path = q

\* One poll of the wait-for-ready and what follows it, in ticks.
AdaptiveStep ==
    (wait.pc = "polling" /\ wait' # wait /\ wait.now < max_wait_time)
       => \/ /\ wait'.status = "processing"
             /\ wait'.pc = "polling"
             /\ wait'.slept = 5000000
             /\ wait'.current_interval = wait'.slept
             /\ wait'.now = wait.now + wait'.slept
             /\ wait'.consecutive_failures = 0
          \/ /\ wait'.status = "pending"
             /\ wait'.pc = "polling"
             /\ wait'.slept =
                   (IF wait.current_interval * 12 > 20000000 * 10
                    THEN 20000000
                    ELSE (wait.current_interval * 12) \div 10)
             /\ wait'.current_interval = wait'.slept
             /\ wait'.now = wait.now + wait'.slept
             /\ wait'.consecutive_failures = 0
          \/ /\ wait'.status = "raise"
             /\ wait'.pc = "polling"
             /\ wait'.consecutive_failures = wait.consecutive_failures + 1
             /\ wait'.slept =
                   (IF wait'.consecutive_failures >= 5
                    THEN 20000000
                    ELSE 1000000 * Pow2(wait'.consecutive_failures))
             /\ wait'.current_interval = wait.current_interval
             /\ wait'.now = wait.now + wait'.slept
          \/ /\ wait'.status \in {"ready", "failed", "error"}
             /\ wait'.pc = "returned"
             /\ wait'.consecutive_failures = 0
             /\ wait'.now = wait.now

\* C29: in the adaptive wait-for-ready the interval starts at 0.5 s, the
\* sleep after a poll that saw 'processing' is 0.5 s and after a poll that
\* saw 'pending' it is min(2.0, previous x 1.2), for any status sequence;
\* the interval always lies in [0.5 s, 2.0 s]; after k consecutive
\* transport errors the sleep is min(2.0, 0.1 x 2^k), and any successful
\* poll resets k to 0.
C29_AdaptiveIntervals ==
    /\ [](wait.pc # "idle"
            => /\ wait.current_interval >= 5000000
               /\ wait.current_interval <= 20000000
               /\ (wait.status = "none" => wait.current_interval = 5000000))
    /\ [][AdaptiveStep]_vars

C29_Witness ==
    /\ wait.pc = "polling"
    /\ wait.status = "raise"
    /\ wait.errors = 6
    /\ wait.consecutive_failures = 5
    /\ wait.slept = 20000000
    /\ wait.current_interval = 20000000

\* The summary calls made so far for the segment.
SummaryCalls == Cardinality({i \in 1 .. Len(events) : events[i] = "summary_call"})

\* C30: the summary call is made at most 3 times per job and stops at the
\* first success; after the n-th failed attempt (n < 3) the worker waits
\* 0.5 s x n before the next attempt, and no wait follows the last attempt.
C30_SummaryRetry ==
    /\ [](seg.pc # "idle"
            => /\ SummaryCalls <= 3
               /\ Len(seg.slept) <= 2
               /\ \A n \in 1 .. Len(seg.slept) : seg.slept[n] = 500 * n
               /\ (seg.summary = "none" => Len(seg.slept) = SummaryCalls)
               /\ (seg.summary # "none" => Len(seg.slept) = SummaryCalls - 1)
               /\ (seg.summary = "failed" => SummaryCalls = 3))
    /\ [][(seg.pc # "idle" /\ seg.summary # "none")
             => /\ SummaryCalls' = SummaryCalls
                /\ seg'.slept = seg.slept
                /\ seg'.summary = seg.summary]_vars

C30_Witness ==
    /\ seg.pc = "done"
    /\ seg.summary = "ok"
    /\ SummaryCalls = 3
    /\ seg.slept = <<500, 1000>>

(* --- C31 .. C40 --- *)

\* C31: for a window that has audio, when the muxer exits non-zero, times
\* out or cannot be launched, the segment is still emitted with the
\* video-only file as its video_path, the WAV and muxed-output temporaries
\* are deleted, and has_audio is true only if the emitted file carries the
\* audio track.
C31_MuxerFallback ==
    (/\ capture.pc = "built"
     /\ capture.audio_len > 0
     /\ capture.raised = "none"
     /\ capture.ffmpeg \in {"failed", "timeout", "not_found"})
       => /\ capture.segment.returned = "info"
          /\ capture.segment.info.video_path = "temp_video_path"
          /\ capture.segment.disk = {"temp_video_path"}
          /\ (capture.segment.info.has_audio => capture.segment.audio_track)

\* C32: if building a segment raises at any step, all three temporary
\* files are removed, the builder returns nothing, no job is pushed for the
\* window and the capture loop goes on; on success exactly one of the three
\* files remains and it is the one named in the pushed job.
C32_BuilderCleanup ==
    /\ [](capture.pc = "built"
            => IF capture.raised # "none"
               THEN /\ capture.segment.disk = {}
                    /\ capture.segment.returned = "None"
               ELSE /\ capture.segment.returned = "info"
                    /\ capture.segment.disk
                          = {capture.segment.info.video_path})
    /\ [][(capture.pc = "built" /\ capture'.pc = "idle")
             => IF capture.raised # "none"
                THEN queue' = queue
                ELSE /\ Len(queue') = Len(queue) + 1
                     /\ nextPath \in files']_vars

\* The entries the controller owes for the labels of an analysis.
EntriesFor(labels, raising) ==
    LET due == (IF "calendar" \in labels THEN <<"calendar">> ELSE <<>>)
               \o (IF "highlights" \in labels THEN <<"highlights">> ELSE <<>>)
    IN  /\ Len(controller.result.automations_triggered) = Len(due)
        /\ \A i \in 1 .. Len(due) :
              LET e == controller.result.automations_triggered[i] IN
              IF due[i] \in raising
              THEN e.status = "failed" /\ e.error
              ELSE e.type = due[i] /\ e.status = "success"

\* C33: the controller dispatches exactly the automations the classifier
\* selected: automations_triggered has one entry per accepted label
\* (calendar, highlights) present in triggered_automations and none for any
\* other label; an automation that raises contributes an entry with status
\* failed and an error and does not prevent the other automation's entry.
C33_Dispatch ==
    (controller.pc = "done" /\ controller.resp.kind = "object")
       => /\ ~controller.result.error
          /\ EntriesFor(controller.resp.labels, controller.raising)

C33_Witness ==
    /\ controller.pc = "done"
    /\ controller.resp.kind = "object"
    /\ controller.resp.labels = Labels
    /\ controller.raising = {"calendar"}
    /\ Len(controller.result.automations_triggered) = 2
    /\ controller.result.automations_triggered[2].type = "highlights"

\* C34: a malformed classifier response never aborts the pipeline: when
\* the response is not parseable JSON or the classifier call raises, the
\* triggered automations are exactly those of the keyword heuristic
\* (calendar iff a calendar keyword occurs case-insensitively in the
\* summary, highlights iff a highlights keyword occurs), and the controller
\* returns a result without an error for any response the classifier can
\* produce.
C34_MalformedResponse ==
    controller.pc = "done"
       => /\ ~controller.result.error
          /\ controller.resp.kind \in {"raise", "not_json"}
                => EntriesFor(
                      {l \in AcceptedLabels :
                          \E word \in controller.summary :
                             \/ l = "calendar"
                                /\ word \in {"Meeting", "recalled"}
                             \/ l = "highlights" /\ word = "IMPORTANT"},
                      controller.raising)

\* Every pushed job is eventually popped and the queue eventually empties
\* (the first half of C35, for a pool that is not being stopped).
QueueDrains ==
    /\ \A p \in Paths :
          (p < nextPath) ~> (\E i \in 1 .. Len(popped) : popped[i] = p)
    /\ (Len(queue) > 0) ~> (Len(queue) = 0)

\* C35: with at least one worker running and every external call
\* eventually returning, every pushed job is eventually popped, so the
\* queue size eventually reaches 0; and once the queue size is 0 and the
\* pool is stopped, every pushed job has been either committed or reported
\* as failed.
C35_DrainedMeansDone ==
    (Len(queue) = 0 /\ mgr = "stopped")
       => \A p \in Paths :
             p < nextPath =>
                \/ outcome[p].insert = "ok"
                \/ outcome[p].insert = "failed"
                \/ outcome[p].result = "error"

\* A waiter returns only on a poll that saw a final status or when 180 s
\* have elapsed on its clock, never on a transport error.
ReturnsOnlyWhenDecided ==
    /\ (waiter.pc = "polling" /\ waiter'.pc = "returned")
          => \/ waiter'.status \in {"ready", "failed", "error"}
             \/ waiter'.status = "timeout" /\ waiter.now >= 180 * Tick
    /\ (wait.pc = "polling" /\ wait'.pc = "returned")
          => \/ wait'.status \in {"ready", "failed", "error"}
                /\ wait'.poll_at = wait.now
             \/ wait.now >= 180 * Tick /\ wait' = [wait EXCEPT
                                                     !.pc = "returned",
                                                     !.result = "None"]

\* The adaptive waiter returned because its 180 s had elapsed.
AdaptiveTimedOut ==
    wait.now >= 180 * Tick /\ wait.status \notin {"ready", "failed", "error"}

\* C36: the fixed-interval waiter and the adaptive waiter agree on outcome
\* for the same task: each returns the task's video id once the status is
\* ready, nothing once it is failed or error, and nothing if 180 s elapse
\* first; neither gives up because of transport errors alone.
C36_WaitersAgree ==
    /\ [](waiter.pc = "returned"
            => /\ waiter.result = "video_id" <=> waiter.status = "ready"
               /\ waiter.result = "None"
                     <=> waiter.status \in {"failed", "error", "timeout"}
               /\ waiter.status # "timeout" => waiter.status = waiter.final)
    /\ [](wait.pc = "returned"
            => /\ wait.result = "video_id"
                     <=> (wait.status = "ready" /\ ~AdaptiveTimedOut)
               /\ wait.result = "None"
                     <=> (wait.status \in {"failed", "error"}
                          \/ AdaptiveTimedOut)
               /\ ~AdaptiveTimedOut => wait.status = waiter.final)
    /\ []((/\ waiter.pc = "returned"
           /\ wait.pc = "returned"
           /\ waiter.status # "timeout"
           /\ ~AdaptiveTimedOut)
            => wait.result = waiter.result)
    /\ [][ReturnsOnlyWhenDecided]_vars

C36_Witness ==
    /\ waiter.pc = "returned"
    /\ wait.pc = "returned"
    /\ waiter.final = "ready"
    /\ waiter.met_errors
    /\ wait.errors = MaxWaiterErrors
    /\ waiter.result = "video_id"
    /\ wait.result = "video_id"

\* Job p has ended: process_video_segment has returned for it and none of
\* its background tasks is left.
JobEnded(p) == outcome[p].result # "none" /\ TasksOf(p) = {}

\* C37: referential integrity across the stores: no vector point written
\* by the pipeline refers to a video_id whose relational insert failed, and
\* once a job has ended every vector point created for it has a matching
\* videos row (likewise for highlight rows).
C37_ReferentialIntegrity ==
    \A p \in Paths :
       /\ outcome[p].insert = "failed" => PointsOf(p) = {}
       /\ (JobEnded(p) /\ PointsOf(p) # {}) => RowsOf(p) # {}

\* C38: in the combined mode, once a SIGINT has been delivered with both
\* subsystems started, the capture loop is no longer recording (the handler
\* of the capture loop runs inside the delivery) -- the registration of the
\* worker manager's handler has not disabled it.
C38_SigintStopsBoth ==
    (lifecycle.pc = "created" /\ lifecycle.workers # "created"
        /\ lifecycle.sigints = 1 /\ lifecycle.handler = "workers")
    => ~lifecycle.is_recording

\* After one SIGINT start_both_systems has not returned.
OneSigintNeverReturns ==
    (lifecycle.pc = "returned") => lifecycle.sigints > 1

\* The pool is stopped and start_workers has returned while the capture
\* loop records on.
WorkersStoppedCaptureRuns ==
    /\ lifecycle.pc = "created"
    /\ lifecycle.sigints = 1
    /\ lifecycle.workers = "returned"
    /\ lifecycle.is_recording

\* The worker's task is inside process_loop.
LoopRunning(w) == pc[w] \notin {"created", "returned", "cancelled"}

\* C39: the monitoring figures are accurate: active_workers counts only
\* workers whose processing loop is running (not one whose start returned on
\* a failed queue connection, nor one whose loop has exited), and
\* total_processed is the number of jobs whose insert was committed.
C39_MonitoringFigures ==
    /\ active_workers =
           Cardinality({w \in Workers : is_running[w] /\ LoopRunning(w)})
    /\ total_processed =
           Cardinality({p \in Paths : outcome[p].insert = "ok"})

\* total_processed never decreases.
TotalProcessedMonotone ==
    [][sum_processed_count(Workers)' >= sum_processed_count(Workers)]_vars

\* The rest of C39: a worker whose loop ended through stop_workers is not
\* counted, and without failed inserts the total is the committed jobs.
C39_Rest ==
    /\ \A w \in Workers : pc[w] = "cancelled" => ~is_running[w]
    /\ \A w \in Workers :
           (pc[w] = "returned" /\ is_running[w]) => lastPop[w] = "none"
    /\ total_processed =
           Cardinality({p \in Paths : outcome[p].insert = "ok"})

\* C40: at most one video system per user, started or about to start,
\* whatever the order of /start, /stop and /end; and after a /stop or /end
\* reply that reports the user as not running no system of that user is
\* running.
C40_OneSystemPerUser ==
    system.pc = "serving" =>
        /\ \A u \in Users :
               Cardinality(running_for(u) \cup pending_for(u)) <= 1
        /\ (system.last.op \in {"stop", "end"})
               => running_for(system.last.user) = {}

====
